---------------------------- MODULE Spec2Model ----------------------------
(***************************************************************************)
(* A model of the casino-rollup sequencer.                                 *)
(*                                                                         *)
(*   Settlement pipeline (SpecSettle / FairSettle):                        *)
(*     sequencer/src/main.rs                 coordinator loop,             *)
(*                                           process_settlement_batch,     *)
(*                                           crash recovery                *)
(*     sequencer/src/settlement_persistence.rs   the JSON-file store       *)
(*     sequencer/src/solana.rs               send_transaction_with_retry   *)
(*     sequencer/src/settlement_prover.rs    the prover as main builds it  *)
(*     prover/src/witness_generator.rs       generate_witness's size check *)
(*     programs/verifier/src/lib.rs          verify_and_settle             *)
(*                                                                         *)
(*   Ledger store (SpecDb):                                                *)
(*     sequencer/src/database.rs             DashMap-backed balances       *)
(***************************************************************************)
EXTENDS Integers, Sequences, FiniteSets, TLC

(***************************************************************************)
(* Bounds of the model.                                                    *)
(***************************************************************************)
\* Number of distinct bet ids the senders may put on the settlement channel.
MaxBetId == 2
\* Total number of settlement items sent on the channel in one behaviour.
MaxSends == 3
\* Number of process crashes (each followed by a restart) in one behaviour.
MaxCrashes == 1
\* The coordinator flushes its buffer when it holds this many items.  The
\* code's threshold is 50 (main.rs:1098); the model scales it down so that
\* both the size flush and the timer flush occur within MaxSends items.
FlushThreshold == 2
\* Ledger store: total number of calls started in one behaviour, and the
\* largest amount (and payout) a call may carry.
MaxCalls == 3
MaxAmount == 2
\* Number of tasks that call the ledger store concurrently.
NumTasks == 2
\* Bet timestamps are drawn from 1..MaxTime.
MaxTime == 2
\* Number of POST /v1/bet requests in one behaviour.
MaxBets == 2
\* VRF engine: number of secret keys, of values a signature byte can take,
\* and of load_or_generate calls in one behaviour.
NumKeys == 2
ByteSpace == 4
MaxLoads == 2
\* Number of SHA-256 digests, greatest nonce passed to the VRF, and number
\* of create_vrf_proof calls in one behaviour.
DigestSpace == 8
MaxNonce == 1
MaxProofs == 2
\* Number of parse_user_id calls in one behaviour.
MaxParses == 2
\* Greatest number of public inputs of a SerializableProof.
MaxInputs == 2

(***************************************************************************)
(* Program constants.                                                      *)
(***************************************************************************)
\* SolanaConfig::default().retry_attempts
RetryAttempts == 3
\* The greatest value of the balance fields' type (i64), scaled down from
\* 2^63 - 1 to 2^3 - 1: the fields are 4-bit two's complement numbers here.
I64Max == 7
\* The greatest u64, scaled down alike from 2^64 - 1 to 2^4 - 1.
U64Max == 15
\* parse_user_id reduces its number modulo this (settlement_prover.rs:150, 160).
UserIdModulus == 1000
\* Number of values of a byte.
ByteBase == 256
\* Bytes of a serialized field element (32 in the code, scaled down).
FrLen == 2
\* The smallest bet the endpoint accepts: 1000 in the code (main.rs:524),
\* scaled down with the integer widths.
MinBetAmount == 2

BetIds == 1..MaxBetId
\* create_batch hands out last_batch_id + 1; every batch holds at least one
\* item, so no more than MaxSends ids are handed out between two resets.
BatchIds == 1..MaxSends

VARIABLES
    \* ---- settlement pipeline ----
    mem,        \* SettlementPersistence.data (PersistenceData, in memory)
    file,       \* the settlement.json file on disk
    channel,    \* items sent on the mpsc channel and not yet received
    batch,      \* the coordinator's buffer (`batch` in main)
    pc,         \* the coordinator's position
    cur,        \* locals of the running process_settlement_batch call
    ledger,     \* verify_and_settle transactions the ledger accepted, per batch_id
    cfg,        \* which optional components the process was started with
    io,         \* result of the persistence mutator called by the last step
    hist,       \* history: ids returned by create_batch, batches seen by recovery
    budget,     \* counters that bound the environment (sends, crashes)
    \* ---- ledger store ----
    balances,   \* Database.balances
    readers,    \* per shard: number of live read guards (dashmap Ref)
    shardOf,    \* the shard each address hashes to
    tasks,      \* the concurrent callers of the ledger store
    overflowChecks, \* the build: TRUE panics on i64 overflow, FALSE wraps
    dbhist,     \* history: calls started, amounts credited by returned deposits
    bets,       \* Database.bets
    player_bets, \* Database.player_bets
    \* ---- bet endpoint ----
    bet_counter, \* AppState.bet_counter
    reqs,       \* the POST /v1/bet requests: handler and background task
    queued,     \* settlement items the bet endpoint sent on the channel
    \* ---- prover ----
    wbatch,     \* the SettlementBatch handed to generate_witness
    wres,       \* what generate_witness returned
    circuit,    \* the AccountingCircuit built
    sat,        \* whether the circuit's constraint system is satisfied
    \* ---- concurrent callers of the settlement persistence ----
    muts,       \* per caller: position in its mutator call, snapshot taken
    phist,      \* history: mutations applied, version on disk, calls that returned Ok
    \* ---- VRF engine ----
    env,        \* value of the VRF_KEYPAIR_PATH environment variable
    keyfiles,   \* the key files on disk, per path
    keylog,     \* history: the load_or_generate calls made and what they returned
    keypair,    \* the process-wide VRFKeypair
    proofs,     \* history: the create_vrf_proof calls made and the proofs returned
    \* ---- address mapping and proof transport ----
    uidlog,     \* history: the parse_user_id calls made and the ids returned
    wire,       \* a SerializableProof, its frame and what from_bytes made of it
    \* ---- Solana client and settlement prover ----
    retry,      \* a send_transaction_with_retry call: config, attempts, sleeps, result
    sprover,    \* SettlementProver: batch_counter, user_balances, house_balance
    plog        \* history: the generate_proof calls made and what they returned

settleVars == <<mem, file, channel, batch, pc, cur, ledger, cfg, io, hist, budget>>
dbVars == <<balances, readers, shardOf, tasks, overflowChecks, dbhist>>
betVars == <<bets, player_bets, bet_counter, reqs, queued>>
proverVars == <<wbatch, wres, circuit, sat>>
callerVars == <<muts, phist>>
vrfVars == <<env, keyfiles, keylog, keypair, proofs>>
codecVars == <<uidlog, wire>>
svcVars == <<retry, sprover, plog>>
vars == <<mem, file, channel, batch, pc, cur, ledger, cfg, io, hist, budget,
          balances, readers, shardOf, tasks, overflowChecks, dbhist,
          bets, player_bets, bet_counter, reqs, queued,
          wbatch, wres, circuit, sat, muts, phist,
          env, keyfiles, keylog, keypair, proofs, uidlog, wire,
          retry, sprover, plog>>
\* What the actions of one component leave alone.
otherThanSettle == <<dbVars, betVars, proverVars, callerVars, vrfVars, codecVars, svcVars>>
otherThanDb == <<settleVars, bet_counter, reqs, queued, proverVars, callerVars, vrfVars, codecVars, svcVars>>

(***************************************************************************)
(* Helpers.                                                                *)
(***************************************************************************)
Max(a, b) == IF a >= b THEN a ELSE b

Range(s) == {s[i] : i \in DOMAIN s}

(***************************************************************************)
(* Settlement persistence (settlement_persistence.rs).                     *)
(***************************************************************************)
\* PersistenceData::default()
EmptyData == [batches |-> <<>>, processed_bet_ids |-> {}, last_batch_id |-> 0]

\* A settlement item is modelled by its bet_id; the other fields
\* (player_address, amount, payout, timestamp) are carried unchanged.
NewBatch(items) ==
    [status |-> "Pending", proof_data |-> FALSE,
     transaction_signature |-> "none", items |-> items]

\* The in-memory part of create_batch (lines 156-178).
CreateBatchMem(d, items) ==
    LET id == d.last_batch_id + 1 IN
    [batches |-> [b \in (DOMAIN d.batches) \cup {id} |->
                     IF b = id THEN NewBatch(items) ELSE d.batches[b]],
     processed_bet_ids |-> d.processed_bet_ids \cup Range(items),
     last_batch_id |-> id]

\* The in-memory part of update_batch_status (lines 199-205).
UpdateBatchStatusMem(d, id, status) ==
    IF id \in DOMAIN d.batches
    THEN [d EXCEPT !.batches[id].status = status]
    ELSE d

\* The in-memory part of store_transaction (lines 239-245).
StoreTransactionMem(d, id, sig) ==
    IF id \in DOMAIN d.batches
    THEN [d EXCEPT !.batches[id].status = "Submitted",
                   !.batches[id].transaction_signature = sig]
    ELSE d

\* get_pending_batches: the ids of the batches it returns.
PendingStatuses == {"Pending", "Proving", "Proved", "Submitted"}
GetPendingBatches(d) ==
    {b \in DOMAIN d.batches : d.batches[b].status \in PendingStatuses}

IsBetProcessed(d, bet_id) == bet_id \in d.processed_bet_ids

\* SettlementPersistence::new: an existing file is parsed, and a file that
\* does not parse is replaced by the default (unwrap_or_default, line 100).
LoadData(f) == IF f.kind = "data" THEN f.d ELSE EmptyData

\* save_to_file writes a snapshot of the in-memory data with fs::write,
\* which truncates the file and then writes.  The write
\*   "ok"    succeeds: the file holds the snapshot;
\*   "err"   fails before the file is touched (open fails);
\*   "torn"  fails after the truncation: the file no longer parses.
WriteOutcomes == {"ok", "err", "torn"}
SaveToFile(f, d, outcome) ==
    CASE outcome = "ok"   -> [kind |-> "data", d |-> d]
      [] outcome = "err"  -> f
      [] outcome = "torn" -> [kind |-> "corrupt", d |-> EmptyData]
IoResult(outcome) == IF outcome = "ok" THEN "ok" ELSE "err"


(***************************************************************************)
(* The ledger.  The cluster and the program deployed at                    *)
(* verifier_program_id are outside the process: whether a transaction that *)
(* was sent lands is the ledger's choice.  What is taken from              *)
(* programs/verifier/src/lib.rs is that verify_and_settle keeps no record  *)
(* of the batch ids it has settled: batch_id is only logged and emitted.   *)
(***************************************************************************)
\* verify_and_settle's effect on the ledger: one more settled transaction
\* for the batch id, whatever was settled under that id before.
VerifyAndSettle(l, id) == [l EXCEPT ![id] = @ + 1]

(***************************************************************************)
(* The settlement prover as main sets it up (main.rs:1034-1056).           *)
(***************************************************************************)
\* SettlementProverConfig::default()
DefaultMaxUsers == 5
DefaultMaxBetsPerBatch == 3

\* ProofGenerator::new(max_batch_size, max_users)
ProofGeneratorNew(max_batch_size, max_users) ==
    [max_batch_size |-> max_batch_size, max_users |-> max_users]

\* SettlementProver::new passes (config.max_users, config.max_bets_per_batch).
SettlementProverNew == ProofGeneratorNew(DefaultMaxUsers, DefaultMaxBetsPerBatch)

\* The user ids main gives a balance to with init_user_balance.  The map
\* only grows afterwards (update_balances), so these keys stay in it.
SeededUserIds == {100, 200, 300}

\* generate_witness: after validate_batch, the largest key of
\* initial_balances must be below max_users, or BatchTooLarge is returned.
MaxUserIdFits(gen, user_ids) == \A u \in user_ids : u < gen.max_users

\* SettlementProver::generate_proof succeeds only when the batch is valid
\* (validate_batch, the bounds of convert_to_settlement_batch) and the
\* balance map fits the circuit.
GenerateProofOk(valid) == valid /\ MaxUserIdFits(SettlementProverNew, SeededUserIds)

(***************************************************************************)
(* Settlement pipeline: initial state.                                     *)
(***************************************************************************)
NoCur == [id |-> 0, proof |-> "none", attempt |-> 0, submit |-> "none"]

DbIdle ==
    /\ balances = <<>>
    /\ readers = <<>>
    /\ shardOf = <<>>
    /\ tasks = <<>>
    /\ overflowChecks = FALSE
    /\ dbhist = <<>>
    /\ bets = <<>>
    /\ player_bets = <<>>

\* No bet request has been made.
BetIdle ==
    /\ bet_counter = 0
    /\ reqs = <<>>
    /\ queued = <<>>

\* The prover has been given nothing.
ProverIdle ==
    /\ wbatch = <<>>
    /\ wres = "none"
    /\ circuit = <<>>
    /\ sat = "none"
    /\ muts = <<>>
    /\ phist = <<>>

\* No key has been loaded, no proof made, no address mapped, no frame written.
VrfIdle ==
    /\ env = <<>>
    /\ keyfiles = <<>>
    /\ keylog = <<>>
    /\ keypair = <<>>
    /\ proofs = <<>>

CodecIdle ==
    /\ uidlog = <<>>
    /\ wire = <<>>

\* No transaction is being sent and no settlement prover has been built.
SvcIdle ==
    /\ retry = <<>>
    /\ sprover = <<>>
    /\ plog = <<>>

\* The process has just been started on a machine without a persistence
\* file: SettlementPersistence::new gives the default data.  The optional
\* components are fixed by the environment (ENABLE_SOLANA, ENABLE_ZK_PROOFS).
InitSettle ==
    /\ mem = EmptyData
    /\ file = [kind |-> "absent", d |-> EmptyData]
    /\ channel = <<>>
    /\ batch = <<>>
    /\ pc = "recover"
    /\ cur = NoCur
    /\ ledger = [b \in BatchIds |-> 0]
    /\ cfg \in [solana : BOOLEAN, prover : BOOLEAN]
    /\ io = "none"
    /\ hist = [returned |-> 0, recovered |-> {}, received |-> <<>>]
    /\ budget = [sends |-> 0, crashes |-> 0]
    /\ DbIdle
    /\ BetIdle
    /\ VrfIdle
    /\ CodecIdle
    /\ SvcIdle
    /\ ProverIdle

(***************************************************************************)
(* The bet endpoint's background tasks, seen from the channel: an item     *)
(* with some bet id is sent (main.rs:689).  A resend of an id is allowed.  *)
(***************************************************************************)
Send(b) ==
    /\ pc # "recover"
    /\ budget.sends < MaxSends
    /\ channel' = Append(channel, b)
    /\ budget' = [budget EXCEPT !.sends = @ + 1]
    /\ io' = "none"
    /\ UNCHANGED <<mem, file, batch, pc, cur, ledger, cfg, hist>>
    /\ UNCHANGED otherThanSettle

(***************************************************************************)
(* Crash recovery at startup (main.rs:902-947): the pending batches are    *)
(* read and each is logged; no batch is processed, no status is changed.   *)
(***************************************************************************)
Recover ==
    /\ pc = "recover"
    /\ hist' = [hist EXCEPT !.recovered = GetPendingBatches(mem)]
    /\ pc' = "select"
    /\ io' = "none"
    /\ UNCHANGED <<mem, file, channel, batch, cur, ledger, cfg, budget>>
    /\ UNCHANGED otherThanSettle

(***************************************************************************)
(* The coordinator loop (main.rs:1080-1126).                               *)
(***************************************************************************)
\* A buffer that does not take the item.
DropItem(buf, item) == buf

\* A buffer that takes the item in front of the items it holds.
PushFront(buf, item) == <<item>> \o buf

\* A flush that waits for one item more than the threshold.
FlushLate(buf) == Len(buf) > FlushThreshold

\* The buffer after the item was pushed, and whether it is flushed now.
PushItem(buf, item) == Append(buf, item)
FlushNow(buf) == Len(buf) >= FlushThreshold

\* recv() gives an item whose bet id is in processed_bet_ids: skipped.
\* (is_bet_processed never returns Err, so the Err arm is not reachable.)
RecvDuplicate ==
    /\ pc = "select"
    /\ channel # <<>>
    /\ IsBetProcessed(mem, Head(channel))
    /\ channel' = Tail(channel)
    /\ io' = "none"
    /\ UNCHANGED <<mem, file, batch, pc, cur, ledger, cfg, hist, budget>>
    /\ UNCHANGED otherThanSettle

\* recv() gives an item that is not in processed_bet_ids: pushed, and the
\* buffer is processed when it has reached the threshold.
RecvPush ==
    /\ pc = "select"
    /\ channel # <<>>
    /\ ~IsBetProcessed(mem, Head(channel))
    /\ channel' = Tail(channel)
    /\ batch' = PushItem(batch, Head(channel))
    /\ pc' = IF FlushNow(batch') THEN "save_batch" ELSE "select"
    /\ io' = "none"
    /\ hist' = [hist EXCEPT !.received = Append(@, Head(channel))]
    /\ UNCHANGED <<mem, file, cur, ledger, cfg, budget>>
    /\ UNCHANGED otherThanSettle

\* interval.tick() with an empty buffer: the branch body is skipped
\* (line 1119) and the loop selects again.
IdleTick ==
    /\ pc = "select"
    /\ batch = <<>>
    /\ io' = "none"
    /\ UNCHANGED <<mem, file, channel, batch, pc, cur, ledger, cfg, hist, budget>>
    /\ UNCHANGED otherThanSettle

\* interval.tick() with a non-empty buffer.
Tick ==
    /\ pc = "select"
    /\ batch # <<>>
    /\ pc' = "save_batch"
    /\ io' = "none"
    /\ UNCHANGED <<mem, file, channel, batch, cur, ledger, cfg, hist, budget>>
    /\ UNCHANGED otherThanSettle

(***************************************************************************)
(* process_settlement_batch (main.rs:243-407), one action per await.       *)
(***************************************************************************)
\* save_batch -> create_batch (main.rs:263-277).  create_batch changes the
\* in-memory data, releases the lock and then writes the file; when the
\* write fails the error is returned, process_settlement_batch returns and
\* the caller clears its buffer.  actual_batch_id is the id create_batch
\* allocated.
SaveBatch(outcome) ==
    /\ pc = "save_batch"
    /\ mem' = CreateBatchMem(mem, batch)
    /\ file' = SaveToFile(file, mem', outcome)
    /\ io' = IoResult(outcome)
    /\ IF outcome = "ok"
       THEN /\ cur' = [NoCur EXCEPT !.id = mem'.last_batch_id]
            /\ hist' = [hist EXCEPT !.returned = Max(@, mem'.last_batch_id)]
            /\ pc' = "prove"
            /\ UNCHANGED batch
       ELSE /\ batch' = <<>>
            /\ pc' = "select"
            /\ UNCHANGED <<cur, hist>>
    /\ UNCHANGED <<channel, ledger, cfg, budget>>
    /\ UNCHANGED otherThanSettle

\* Where process_settlement_batch goes after the proof step (main.rs:334-375).
AfterProof(proof) ==
    IF cfg.solana
    THEN IF proof = "failed" THEN "mark_completed" ELSE "submit"
    ELSE "store_tx"

\* The proof step (main.rs:284-332) with the prover enabled: the proof
\* bytes when generate_proof succeeds (verify_proof and to_bytes follow),
\* None when it fails.
Prove(valid) ==
    /\ pc = "prove"
    /\ cfg.prover
    /\ LET proof == IF GenerateProofOk(valid) THEN "real" ELSE "failed" IN
       /\ cur' = [cur EXCEPT !.proof = proof, !.attempt = 1]
       /\ pc' = AfterProof(proof)
    /\ io' = "none"
    /\ UNCHANGED <<mem, file, channel, batch, ledger, cfg, hist, budget>>
    /\ UNCHANGED otherThanSettle

\* The proof step without a prover: 64 zero bytes.
PlaceholderProof ==
    /\ pc = "prove"
    /\ ~cfg.prover
    /\ cur' = [cur EXCEPT !.proof = "placeholder", !.attempt = 1]
    /\ pc' = AfterProof("placeholder")
    /\ io' = "none"
    /\ UNCHANGED <<mem, file, channel, batch, ledger, cfg, hist, budget>>
    /\ UNCHANGED otherThanSettle

\* One attempt of send_transaction_with_retry (solana.rs:221-238) made by
\* submit_settlement_batch.  The transaction lands on the ledger or not; the
\* client sees Ok only when it landed, and may see an error although it
\* landed (send_and_confirm_transaction fails while waiting for the
\* confirmation).  After an error the next attempt follows, until
\* retry_attempts attempts were made.
SubmitAttempt(landed, seenOk) ==
    /\ pc = "submit"
    /\ seenOk => landed
    /\ ledger' = IF landed THEN VerifyAndSettle(ledger, cur.id) ELSE ledger
    /\ IF seenOk
       THEN /\ cur' = [cur EXCEPT !.submit = "ok"]
            /\ pc' = "store_tx"
       ELSE IF cur.attempt = RetryAttempts
            THEN /\ cur' = [cur EXCEPT !.submit = "failed"]
                 /\ pc' = "mark_completed"
            ELSE /\ cur' = [cur EXCEPT !.attempt = @ + 1]
                 /\ pc' = "submit"
    /\ io' = "none"
    /\ UNCHANGED <<mem, file, channel, batch, cfg, hist, budget>>
    /\ UNCHANGED otherThanSettle

\* The signature handed to store_transaction: the ledger's (main.rs:347) or,
\* without a Solana client, the mock one (main.rs:369-370).
SignatureToStore == IF cfg.solana THEN "sig" ELSE "mock"

\* store_transaction (main.rs:347 and 370); its error is only logged.
StoreTransaction(outcome) ==
    /\ pc = "store_tx"
    /\ mem' = StoreTransactionMem(mem, cur.id, SignatureToStore)
    /\ file' = SaveToFile(file, mem', outcome)
    /\ io' = IoResult(outcome)
    /\ pc' = "mark_completed"
    /\ UNCHANGED <<channel, batch, cur, ledger, cfg, hist, budget>>
    /\ UNCHANGED otherThanSettle

\* The status mark_completed asks update_batch_status to set (line 143).
CompletedStatus == "Confirmed"

\* mark_completed (main.rs:395-400), reached on every path that got past
\* save_batch; its error is only logged.  process_settlement_batch then
\* returns and the coordinator clears its buffer.
MarkCompleted(outcome) ==
    /\ pc = "mark_completed"
    /\ mem' = UpdateBatchStatusMem(mem, cur.id, CompletedStatus)
    /\ file' = SaveToFile(file, mem', outcome)
    /\ io' = IoResult(outcome)
    /\ batch' = <<>>
    /\ cur' = NoCur
    /\ pc' = "select"
    /\ UNCHANGED <<channel, ledger, cfg, hist, budget>>
    /\ UNCHANGED otherThanSettle

(***************************************************************************)
(* A crash of the process at any point, followed by a restart: everything  *)
(* in memory is lost (buffer, channel, locals) and                         *)
(* SettlementPersistence::new reloads the file.                            *)
(***************************************************************************)
Crash ==
    /\ budget.crashes < MaxCrashes
    /\ budget' = [budget EXCEPT !.crashes = @ + 1]
    /\ mem' = LoadData(file)
    /\ channel' = <<>>
    /\ batch' = <<>>
    /\ cur' = NoCur
    /\ pc' = "recover"
    /\ io' = "none"
    /\ UNCHANGED <<file, ledger, cfg, hist>>
    /\ UNCHANGED otherThanSettle

\* The steps of the coordinator task (everything but the environment).
CoordinatorStep ==
    \/ Recover
    \/ RecvDuplicate
    \/ RecvPush
    \/ Tick
    \/ IdleTick
    \/ \E o \in WriteOutcomes : SaveBatch(o)
    \/ \E valid \in BOOLEAN : Prove(valid)
    \/ PlaceholderProof
    \/ \E landed, seenOk \in BOOLEAN : SubmitAttempt(landed, seenOk)
    \/ \E o \in WriteOutcomes : StoreTransaction(o)
    \/ \E o \in WriteOutcomes : MarkCompleted(o)

NextSettle ==
    \/ \E b \in BetIds : Send(b)
    \/ Crash
    \/ CoordinatorStep

SpecSettle == InitSettle /\ [][NextSettle]_vars

\* The runtime schedules the coordinator task whenever it can take a step;
\* nothing is assumed of the senders or of crashes.
FairSettle == SpecSettle /\ WF_vars(CoordinatorStep)

\* The coordinator in a run without faults: the process does not crash and
\* every write of the persistence file succeeds.
ReliableStep ==
    \/ Recover
    \/ RecvDuplicate
    \/ RecvPush
    \/ Tick
    \/ IdleTick
    \/ SaveBatch("ok")
    \/ \E valid \in BOOLEAN : Prove(valid)
    \/ PlaceholderProof
    \/ \E landed, seenOk \in BOOLEAN : SubmitAttempt(landed, seenOk)
    \/ StoreTransaction("ok")
    \/ MarkCompleted("ok")

NextReliable ==
    \/ \E b \in BetIds : Send(b)
    \/ ReliableStep

SpecReliable == InitSettle /\ [][NextReliable]_vars

\* select! takes a branch that is ready; the task is scheduled whenever it
\* can take a step.
FairReliable == SpecReliable /\ WF_vars(ReliableStep)

(***************************************************************************)
(* Observations of the settlement pipeline used by the properties.         *)
(***************************************************************************)
\* The status the file records for batch b ("none": no such record, or no
\* readable file).
PersistedStatus(f, b) ==
    IF f.kind = "data" /\ b \in DOMAIN f.d.batches
    THEN f.d.batches[b].status
    ELSE "none"

PersistedProof(f, b) ==
    f.kind = "data" /\ b \in DOMAIN f.d.batches /\ f.d.batches[b].proof_data

\* Number of items with bet id x over all batches of d.
StoredCount(d, x) ==
    Cardinality({bi \in (DOMAIN d.batches) \X (1..MaxSends) :
                    /\ bi[2] \in DOMAIN d.batches[bi[1]].items
                    /\ d.batches[bi[1]].items[bi[2]] = x})

\* The edges of the batch state machine of the specification.
StatusEdges ==
    {<<"Pending", "Proving">>, <<"Proving", "Proved">>, <<"Proving", "Failed">>,
     <<"Proved", "Submitted">>, <<"Submitted", "Confirmed">>}

\* process_settlement_batch returns in this step, having got past save_batch.
DoneWithBatch == pc = "mark_completed" /\ pc' = "select"

(***************************************************************************)
(* Ledger store (database.rs): player balances in a DashMap.               *)
(*                                                                         *)
(* balances.get(k) takes the read lock of k's shard and gives a guard      *)
(* (Ref) that holds it until dropped; balances.insert(k, v) takes the      *)
(* write lock of the shard, which is granted only when no guard is alive   *)
(* on it.  A call is one task's straight-line code: the steps are the get  *)
(* and the insert.                                                         *)
(***************************************************************************)
Addrs == {"alice", "bob"}
Shards == {"s0", "s1"}
Tasks == 1..NumTasks

\* i64 arithmetic: overflow wraps (two's complement) unless the build
\* checks it, and then the operation panics.
I64Min == -I64Max - 1
Fits(x) == I64Min <= x /\ x <= I64Max
Wrap(x) == ((x - I64Min) % (2 * (I64Max + 1))) + I64Min

\* Amounts a caller may pass: small ones and the greatest one.
Amounts == (1..MaxAmount) \cup {I64Max}
Payouts == {0} \cup Amounts

NoRow ==
    [exists |-> FALSE, balance |-> 0, total_deposited |-> 0,
     total_withdrawn |-> 0, total_wagered |-> 0, total_won |-> 0]

\* The row deposit builds from what get returned (lines 174-201).
DepositRow(current, amount) ==
    IF current.exists
    THEN [current EXCEPT !.balance = Wrap(@ + amount),
                         !.total_deposited = Wrap(@ + amount)]
    ELSE [NoRow EXCEPT !.exists = TRUE, !.balance = amount,
                       !.total_deposited = amount]
DepositFits(current, amount) ==
    current.exists =>
        Fits(current.balance + amount) /\ Fits(current.total_deposited + amount)

\* The row withdraw builds (lines 220-232).
WithdrawRow(current, amount) ==
    [current EXCEPT !.balance = Wrap(@ - amount),
                    !.total_withdrawn = Wrap(@ + amount)]
WithdrawFits(current, amount) ==
    Fits(current.balance - amount) /\ Fits(current.total_withdrawn + amount)

\* The row update_player_balance_after_bet builds (lines 148-162).
BetRow(current, bet_amount, payout) ==
    [current EXCEPT !.balance = Wrap(Wrap(@ - bet_amount) + payout),
                    !.total_wagered = Wrap(@ + bet_amount),
                    !.total_won = Wrap(@ + payout)]
BetFits(current, bet_amount, payout) ==
    /\ Fits(current.balance - bet_amount)
    /\ Fits(current.balance - bet_amount + payout)
    /\ Fits(current.total_wagered + bet_amount)
    /\ Fits(current.total_won + payout)

\* Bet.timestamp values, and the bets a caller may hand to save_bet.
Timestamps == 1..MaxTime
BetRecords == [id : BetIds, player_address : Addrs, timestamp : Timestamps]

\* bets.insert(bet.id, bet): the record stored under the id is replaced.
BetsInsert(m, bet) ==
    [k \in (DOMAIN m) \cup {bet.id} |-> IF k = bet.id THEN bet ELSE m[k]]

\* player_bets.entry(player_address).or_insert_with(Vec::new).push(bet.id)
PlayerBetsPush(pb, bet) ==
    [pb EXCEPT ![bet.player_address] = Append(@, bet.id)]

Reverse(seq) == [i \in 1..Len(seq) |-> seq[Len(seq) + 1 - i]]

Take(seq, n) == IF Len(seq) <= n THEN seq ELSE SubSeq(seq, 1, n)

\* sort_by(|a, b| b.timestamp.cmp(&a.timestamp)): a stable sort, greatest
\* timestamp first; x goes behind every element that is not older than it.
InsertByTimestamp(sorted, x) ==
    LET k == Cardinality({i \in DOMAIN sorted : sorted[i].timestamp >= x.timestamp})
    IN  SubSeq(sorted, 1, k) \o <<x>> \o SubSeq(sorted, k + 1, Len(sorted))

RECURSIVE SortByTimestampDesc(_)
SortByTimestampDesc(seq) ==
    IF seq = <<>> THEN <<>>
    ELSE InsertByTimestamp(SortByTimestampDesc(SubSeq(seq, 1, Len(seq) - 1)),
                           seq[Len(seq)])

\* get_player_bets(player_address, Some(limit)): the player's ids, newest
\* push first, looked up in bets, cut to limit, then sorted.
GetPlayerBets(m, pb, player_address, limit) ==
    LET ids == Reverse(pb[player_address])
        found == SelectSeq(ids, LAMBDA id : id \in DOMAIN m)
        list == [i \in 1..Len(found) |-> m[found[i]]]
    IN  SortByTimestampDesc(Take(list, limit))

IdleTask ==
    [op |-> "none", addr |-> "alice", amount |-> 0, pc |-> "idle",
     row |-> NoRow, guard |-> FALSE, result |-> "none"]

\* Database::new: empty maps.  The shard of a key is fixed by its hash.
InitDb ==
    /\ balances = [a \in Addrs |-> NoRow]
    /\ readers = [s \in Shards |-> 0]
    /\ shardOf \in [Addrs -> Shards]
    /\ tasks = [t \in Tasks |-> IdleTask]
    /\ overflowChecks \in BOOLEAN
    /\ dbhist = [calls |-> 0, credited |-> [a \in Addrs |-> 0]]
    /\ bets = <<>>
    /\ player_bets = [a \in Addrs |-> <<>>]
    /\ BetIdle
    /\ VrfIdle
    /\ CodecIdle
    /\ SvcIdle
    /\ ProverIdle
    /\ mem = EmptyData
    /\ file = [kind |-> "absent", d |-> EmptyData]
    /\ channel = <<>>
    /\ batch = <<>>
    /\ pc = "off"
    /\ cur = NoCur
    /\ ledger = [b \in BatchIds |-> 0]
    /\ cfg = [solana |-> FALSE, prover |-> FALSE]
    /\ io = "none"
    /\ hist = [returned |-> 0, recovered |-> {}, received |-> <<>>]
    /\ budget = [sends |-> 0, crashes |-> 0]

\* A call returns without inserting.
Returned(op, a, amount, result) ==
    [IdleTask EXCEPT !.op = op, !.addr = a, !.amount = amount, !.result = result]

\* A call has built its row and goes on to insert it.
ToInsert(op, a, amount, row, guard) ==
    [op |-> op, addr |-> a, amount |-> amount, pc |-> "insert",
     row |-> row, guard |-> guard, result |-> "none"]

\* deposit up to the end of the `let updated_balance = match ...;` statement
\* (lines 174-202): the guard that get returned is dropped there, before
\* the insert of line 204.
Deposit(t, a, amount) ==
    /\ tasks[t].pc = "idle"
    /\ dbhist.calls < MaxCalls
    /\ dbhist' = [dbhist EXCEPT !.calls = @ + 1]
    /\ LET current == balances[a] IN
       IF overflowChecks /\ ~DepositFits(current, amount)
       THEN tasks' = [tasks EXCEPT ![t] = Returned("deposit", a, amount, "panic")]
       ELSE tasks' = [tasks EXCEPT ![t] =
                ToInsert("deposit", a, amount, DepositRow(current, amount), FALSE)]
    /\ UNCHANGED <<balances, readers, shardOf, overflowChecks, bets, player_bets>>
    /\ UNCHANGED otherThanDb

\* withdraw up to its insert (lines 211-232).  The guard is bound in the
\* match arm that also holds the insert of line 234: it is still alive there.
Withdraw(t, a, amount) ==
    /\ tasks[t].pc = "idle"
    /\ dbhist.calls < MaxCalls
    /\ dbhist' = [dbhist EXCEPT !.calls = @ + 1]
    /\ LET current == balances[a] IN
       IF ~current.exists
       THEN /\ tasks' = [tasks EXCEPT ![t] =
                   Returned("withdraw", a, amount, "PlayerNotFound")]
            /\ UNCHANGED readers
       ELSE IF current.balance < amount
       THEN /\ tasks' = [tasks EXCEPT ![t] =
                   Returned("withdraw", a, amount, "InsufficientBalance")]
            /\ UNCHANGED readers
       ELSE IF overflowChecks /\ ~WithdrawFits(current, amount)
       THEN /\ tasks' = [tasks EXCEPT ![t] = Returned("withdraw", a, amount, "panic")]
            /\ UNCHANGED readers
       ELSE /\ tasks' = [tasks EXCEPT ![t] =
                   ToInsert("withdraw", a, amount, WithdrawRow(current, amount), TRUE)]
            /\ readers' = [readers EXCEPT ![shardOf[a]] = @ + 1]
    /\ UNCHANGED <<balances, shardOf, overflowChecks, bets, player_bets>>
    /\ UNCHANGED otherThanDb

\* update_player_balance_after_bet up to its insert (lines 138-162); the
\* guard is alive at the insert of line 164, as in withdraw.
UpdatePlayerBalanceAfterBet(t, a, bet_amount, payout) ==
    /\ tasks[t].pc = "idle"
    /\ dbhist.calls < MaxCalls
    /\ dbhist' = [dbhist EXCEPT !.calls = @ + 1]
    /\ LET current == balances[a] IN
       IF ~current.exists
       THEN /\ tasks' = [tasks EXCEPT ![t] =
                   Returned("bet", a, bet_amount, "PlayerNotFound")]
            /\ UNCHANGED readers
       ELSE IF current.balance < bet_amount
       THEN /\ tasks' = [tasks EXCEPT ![t] =
                   Returned("bet", a, bet_amount, "InsufficientBalance")]
            /\ UNCHANGED readers
       ELSE IF overflowChecks /\ ~BetFits(current, bet_amount, payout)
       THEN /\ tasks' = [tasks EXCEPT ![t] = Returned("bet", a, bet_amount, "panic")]
            /\ UNCHANGED readers
       ELSE /\ tasks' = [tasks EXCEPT ![t] =
                   ToInsert("bet", a, bet_amount, BetRow(current, bet_amount, payout), TRUE)]
            /\ readers' = [readers EXCEPT ![shardOf[a]] = @ + 1]
    /\ UNCHANGED <<balances, shardOf, overflowChecks, bets, player_bets>>
    /\ UNCHANGED otherThanDb

\* balances.insert(address, updated_balance.clone()) and the return of
\* Ok(updated_balance) (lines 164-165, 204-205, 234-235).  The write lock is
\* granted when no guard is alive on the shard, the caller's own included.
Insert(t) ==
    /\ tasks[t].pc = "insert"
    /\ readers[shardOf[tasks[t].addr]] = 0
    /\ balances' = [balances EXCEPT ![tasks[t].addr] = tasks[t].row]
    /\ tasks' = [tasks EXCEPT ![t] =
            Returned(tasks[t].op, tasks[t].addr, tasks[t].amount, "Ok")]
    /\ dbhist' = IF tasks[t].op = "deposit"
                 THEN [dbhist EXCEPT !.credited[tasks[t].addr] = @ + tasks[t].amount]
                 ELSE dbhist
    /\ UNCHANGED <<readers, shardOf, overflowChecks, bets, player_bets>>
    /\ UNCHANGED otherThanDb

\* The row create_player_balance builds (lines 119-128).
NewPlayerRow(initial_balance) ==
    [NoRow EXCEPT !.exists = TRUE, !.balance = initial_balance,
                  !.total_deposited = initial_balance]

\* create_player_balance (lines 116-132): the row is built and inserted,
\* whatever the map holds for the address, and Ok is returned.  The insert
\* waits for the shard's write lock.  The history of credits starts anew
\* with the row.
CreatePlayerBalance(a, initial_balance) ==
    /\ dbhist.calls < MaxCalls
    /\ readers[shardOf[a]] = 0
    /\ balances' = [balances EXCEPT ![a] = NewPlayerRow(initial_balance)]
    /\ dbhist' = [dbhist EXCEPT !.calls = @ + 1, !.credited[a] = initial_balance]
    /\ UNCHANGED <<readers, shardOf, tasks, overflowChecks, bets, player_bets>>
    /\ UNCHANGED otherThanDb

\* save_bet (lines 60-71): the bet is stored and its id is pushed on
\* the player's list.  No balance row is touched.
SaveBet(bet) ==
    /\ dbhist.calls < MaxCalls
    /\ dbhist' = [dbhist EXCEPT !.calls = @ + 1]
    /\ bets' = BetsInsert(bets, bet)
    /\ player_bets' = PlayerBetsPush(player_bets, bet)
    /\ UNCHANGED <<balances, readers, shardOf, tasks, overflowChecks>>
    /\ UNCHANGED otherThanDb

NextDb ==
    \/ \E bet \in BetRecords : SaveBet(bet)
    \/ \E a \in Addrs, initial_balance \in Amounts : CreatePlayerBalance(a, initial_balance)
    \/ \E t \in Tasks, a \in Addrs, amount \in Amounts : Deposit(t, a, amount)
    \/ \E t \in Tasks, a \in Addrs, amount \in Amounts : Withdraw(t, a, amount)
    \/ \E t \in Tasks, a \in Addrs, amount \in Amounts, payout \in Payouts :
          UpdatePlayerBalanceAfterBet(t, a, amount, payout)
    \/ \E t \in Tasks : Insert(t)

SpecDb == InitDb /\ [][NextDb]_vars

\* Every task is scheduled: a call whose insert can be made makes it.
FairDb == SpecDb /\ \A t \in Tasks : WF_vars(Insert(t))

\* No call of the ledger store is under way.
Quiescent == \A t \in Tasks : tasks[t].pc = "idle"

(***************************************************************************)
(* The bet endpoint (main.rs:514-702): bet_handler and the background      *)
(* task it spawns.                                                         *)
(***************************************************************************)
Reqs == 1..MaxBets

\* `x as i64` of a u64 and `x as u64` of an i64: the same bits.
AsI64(x) == IF x > I64Max THEN x - (U64Max + 1) ELSE x
AsU64(x) == IF x < 0 THEN x + (U64Max + 1) ELSE x
FitsU64(x) == 0 <= x /\ x <= U64Max
WrapU64(x) == x % (U64Max + 1)

\* Amounts a request may carry: below the minimum, the minimum, an
\* ordinary one, and the two at which 2 * amount leaves i64 and u64.
BetAmounts ==
    {MinBetAmount - 1, MinBetAmount, MinBetAmount + 1,
     (I64Max + 1) \div 2, I64Max + 1}

\* A counter that is read and not advanced.
FetchAddStale(counter) == counter

\* fetch_add(1, Ordering::Relaxed): the value read and the value stored.
FetchAddOld(counter) == counter
FetchAddNew(counter) == counter + 1

\* let payout = if won { bet_request.amount * 2 } else { 0 };
Payout(won, amount) == IF won THEN WrapU64(amount * 2) ELSE 0
PayoutFits(won, amount) == won => FitsU64(amount * 2)

\* What the coin flip step can give: a side of the coin, or a failure (the
\* address is no public key with the VRF enabled: 400; the VRF or the
\* blocking task fails: 500).
FlipOutcomes == {"heads", "tails", "bad_address", "internal"}

NoReq ==
    [pc |-> "idle", player_address |-> "alice", amount |-> 0, guess |-> FALSE,
     nonce |-> -1, result |-> FALSE, won |-> FALSE, payout |-> 0,
     status |-> 0, bg |-> "none"]

\* Rows a player can have when a bet arrives: none, or the row a deposit
\* wrote for a new address.
FundedRows == {DepositRow(NoRow, d) : d \in {MinBetAmount, I64Max}}

InitBet ==
    /\ bet_counter = 0
    /\ reqs = [r \in Reqs |-> NoReq]
    /\ queued = <<>>
    /\ bets = <<>>
    /\ player_bets = [a \in Addrs |-> <<>>]
    /\ balances \in [Addrs -> {NoRow} \cup FundedRows]
    /\ readers = [s \in Shards |-> 0]
    /\ shardOf = [a \in Addrs |-> "s0"]
    /\ tasks = [t \in Tasks |-> IdleTask]
    /\ overflowChecks \in BOOLEAN
    /\ dbhist = [calls |-> 0, credited |-> [a \in Addrs |-> 0]]
    /\ ProverIdle
    /\ VrfIdle
    /\ CodecIdle
    /\ SvcIdle
    /\ mem = EmptyData
    /\ file = [kind |-> "absent", d |-> EmptyData]
    /\ channel = <<>>
    /\ batch = <<>>
    /\ pc = "off"
    /\ cur = NoCur
    /\ ledger = [b \in BatchIds |-> 0]
    /\ cfg = [solana |-> FALSE, prover |-> FALSE]
    /\ io = "none"
    /\ hist = [returned |-> 0, recovered |-> {}, received |-> <<>>]
    /\ budget = [sends |-> 0, crashes |-> 0]

\* bet_handler up to the nonce (lines 518-533): a request below the
\* minimum is answered 400; any other claims a nonce with fetch_add.
BetReceive(r, a, amount, guess) ==
    /\ reqs[r].pc = "idle"
    /\ \A q \in Reqs : q < r => reqs[q].pc # "idle"
    /\ IF amount < MinBetAmount
       THEN /\ reqs' = [reqs EXCEPT ![r] =
                   [NoReq EXCEPT !.pc = "done", !.player_address = a,
                                 !.amount = amount, !.guess = guess, !.status = 400]]
            /\ UNCHANGED bet_counter
       ELSE /\ reqs' = [reqs EXCEPT ![r] =
                   [NoReq EXCEPT !.pc = "flip", !.player_address = a,
                                 !.amount = amount, !.guess = guess,
                                 !.nonce = FetchAddOld(bet_counter)]]
            /\ bet_counter' = FetchAddNew(bet_counter)
    /\ UNCHANGED <<bets, player_bets, queued>>
    /\ UNCHANGED <<vrfVars, codecVars, svcVars, callerVars, proverVars, settleVars, balances, readers, shardOf, tasks, overflowChecks, dbhist>>

\* The coin flip, won, payout, the response value and tokio::spawn of the
\* background task (lines 536-644).  A failure of the flip ends the request
\* with an error status; an overflow of amount * 2 in a build that checks
\* it is a panic of the handler (no background task, answered 500).
BetFlip(r, outcome) ==
    /\ reqs[r].pc = "flip"
    /\ IF outcome \in {"bad_address", "internal"}
       THEN reqs' = [reqs EXCEPT ![r].pc = "done",
                       ![r].status = IF outcome = "bad_address" THEN 400 ELSE 500]
       ELSE LET coin_result == (outcome = "heads")
                won == (reqs[r].guess = coin_result)
            IN  IF overflowChecks /\ ~PayoutFits(won, reqs[r].amount)
                THEN reqs' = [reqs EXCEPT ![r].pc = "done", ![r].status = 500]
                ELSE reqs' = [reqs EXCEPT ![r].pc = "respond",
                                ![r].result = coin_result, ![r].won = won,
                                ![r].payout = Payout(won, reqs[r].amount),
                                ![r].bg = "save"]
    /\ UNCHANGED <<bets, player_bets, bet_counter, queued>>
    /\ UNCHANGED <<vrfVars, codecVars, svcVars, callerVars, proverVars, settleVars, balances, readers, shardOf, tasks, overflowChecks, dbhist>>

\* Ok(Json(response)) reaches the client (line 701).
BetRespond(r) ==
    /\ reqs[r].pc = "respond"
    /\ reqs' = [reqs EXCEPT ![r].pc = "done", ![r].status = 200]
    /\ UNCHANGED <<bets, player_bets, bet_counter, queued>>
    /\ UNCHANGED <<vrfVars, codecVars, svcVars, callerVars, proverVars, settleVars, balances, readers, shardOf, tasks, overflowChecks, dbhist>>

\* The Bet the background task builds (lines 635-644).  The bet id is a
\* fresh UUID: the request's number here.
BetOf(r) ==
    [id |-> r, player_address |-> reqs[r].player_address,
     amount |-> AsI64(reqs[r].amount), guess |-> reqs[r].guess,
     result |-> reqs[r].result, won |-> reqs[r].won,
     payout |-> AsI64(reqs[r].payout), timestamp |-> 1]

\* The SettlementItem the background task builds (lines 668-674).
SettlementItemOf(r) ==
    [bet_id |-> r, player_address |-> reqs[r].player_address,
     amount |-> AsI64(reqs[r].amount), payout |-> AsI64(reqs[r].payout)]

\* Background task: save_bet (lines 647-649).
BgSaveBet(r) ==
    /\ reqs[r].bg = "save"
    /\ bets' = BetsInsert(bets, BetOf(r))
    /\ player_bets' = PlayerBetsPush(player_bets, BetOf(r))
    /\ reqs' = [reqs EXCEPT ![r].bg = "update"]
    /\ UNCHANGED <<bet_counter, queued>>
    /\ UNCHANGED <<vrfVars, codecVars, svcVars, callerVars, proverVars, settleVars, balances, readers, shardOf, tasks, overflowChecks, dbhist>>

\* Background task: update_player_balance_after_bet (lines 652-666).  An
\* error is logged and the task goes on; on the success path the call
\* asks for the shard's write lock while it holds its own read guard
\* (database.rs:164), which is never granted: the task stays there.  An
\* overflow in a build that checks it is a panic of the task.
BgUpdateBalance(r) ==
    /\ reqs[r].bg = "update"
    /\ LET current == balances[reqs[r].player_address]
           bet_amount == AsI64(reqs[r].amount)
           payout == AsI64(reqs[r].payout)
       IN  IF ~current.exists \/ current.balance < bet_amount
           THEN /\ reqs' = [reqs EXCEPT ![r].bg = "send"]
                /\ UNCHANGED readers
           ELSE IF overflowChecks /\ ~BetFits(current, bet_amount, payout)
           THEN /\ reqs' = [reqs EXCEPT ![r].bg = "panicked"]
                /\ UNCHANGED readers
           ELSE /\ reqs' = [reqs EXCEPT ![r].bg = "blocked"]
                /\ readers' = [readers EXCEPT ![shardOf[reqs[r].player_address]] = @ + 1]
    /\ UNCHANGED <<bets, player_bets, bet_counter, queued>>
    /\ UNCHANGED <<vrfVars, codecVars, svcVars, callerVars, proverVars, settleVars, balances, shardOf, tasks, overflowChecks, dbhist>>

\* Background task: settlement_sender.send(settlement_item) (line 689).
BgSend(r) ==
    /\ reqs[r].bg = "send"
    /\ queued' = Append(queued, SettlementItemOf(r))
    /\ reqs' = [reqs EXCEPT ![r].bg = "done"]
    /\ UNCHANGED <<bets, player_bets, bet_counter>>
    /\ UNCHANGED <<vrfVars, codecVars, svcVars, callerVars, proverVars, settleVars, balances, readers, shardOf, tasks, overflowChecks, dbhist>>

NextBet ==
    \/ \E r \in Reqs, a \in Addrs, amount \in BetAmounts, guess \in BOOLEAN :
          BetReceive(r, a, amount, guess)
    \/ \E r \in Reqs, outcome \in FlipOutcomes : BetFlip(r, outcome)
    \/ \E r \in Reqs : BetRespond(r)
    \/ \E r \in Reqs : BgSaveBet(r)
    \/ \E r \in Reqs : BgUpdateBalance(r)
    \/ \E r \in Reqs : BgSend(r)

SpecBet == InitBet /\ [][NextBet]_vars

\* The BetSettlement submit_batch_to_solana_with_proof builds from a
\* settlement item (main.rs:476-498).
BetSettlementWithProof(item) ==
    LET won == item.payout > 0
        user_guess == 1
    IN  [bet_amount |-> AsU64(item.amount), user_guess |-> user_guess,
         outcome |-> IF won THEN user_guess ELSE 1 - user_guess,
         payout |-> AsU64(item.payout)]

\* i64::abs: the least value has no positive counterpart and wraps to
\* itself.
AbsI64(x) == IF x = I64Min THEN x ELSE IF x < 0 THEN -x ELSE x

\* The BetSettlement submit_batch_to_solana builds (main.rs:420-440).
BetSettlementLegacy(item) ==
    LET is_win == item.payout > AbsI64(item.amount) IN
    [bet_amount |-> AsU64(AbsI64(item.amount)),
     user_guess |-> IF is_win THEN 1 ELSE 0,
     outcome |-> IF is_win THEN 1 ELSE 0,
     payout |-> IF is_win THEN AsU64(item.payout) ELSE 0]

\* The SettlementBet convert_to_settlement_batch builds from a settlement
\* item (settlement_prover.rs:97-116).
ConvertToSettlementBet(item) ==
    LET is_win == item.payout > AbsI64(item.amount)
        guess == TRUE
    IN  [user_id |-> item.player_address, amount |-> AsU64(AbsI64(item.amount)),
         guess |-> guess, outcome |-> is_win, bet_id |-> item.bet_id]

\* A coin side as the u8 of a BetSettlement: heads (true) is 1.
SideU8(side) == IF side THEN 1 ELSE 0

\* The requests that passed amount validation.
Claimed == {r \in Reqs : reqs[r].nonce >= 0}

\* The player of request r cannot cover the bet.
Underfunded(r) ==
    \/ ~balances[reqs[r].player_address].exists
    \/ balances[reqs[r].player_address].balance < reqs[r].amount

IsQueued(r) == \E i \in DOMAIN queued : queued[i].bet_id = r

(***************************************************************************)
(* The prover: WitnessGenerator (prover/src/witness_generator.rs) and the  *)
(* AccountingCircuit (prover/src/circuits/accounting.rs).  u64 and i64     *)
(* keep the scaled widths of U64Max and I64Max.                            *)
(***************************************************************************)
\* WitnessGenerator::new(max_batch_size, max_users), scaled down from the
\* default 100 and 10.
max_batch_size == 2
max_users == 2

\* The scalar field Fr, scaled down to a prime above U64Max (Fr::from(u64)
\* is injective).
FieldP == 17
\* The offset added to a delta before it becomes a field element (1 << 32
\* in the code), scaled down.
DeltaOffset == 4

\* User ids: those of the circuit's balance arrays and the first one past
\* them.
ArrayIds == 0..(max_users - 1)
UserIds == 0..max_users

\* The bets of a batch; the player guesses heads and wins or loses by the
\* outcome.
SettlementBets ==
    [user_id : ArrayIds, amount : 1..MaxAmount, guess : {TRUE}, outcome : BOOLEAN]

\* The batches generate_witness is given: up to one bet more than
\* max_batch_size, balances for any set of user ids.
SettlementBatches ==
    [bets : UNION {[1..n -> SettlementBets] : n \in 0..(max_batch_size + 1)},
     initial_balances : UNION {[K -> 1..MaxAmount] : K \in SUBSET UserIds},
     house_initial_balance : {0, MaxAmount}]

\* SettlementBet::won and SettlementBet::delta (the i64 the code computes).
Won(bet) == bet.guess = bet.outcome
BetDelta(bet) ==
    IF Won(bet) THEN AsI64(bet.amount) ELSE Wrap(-AsI64(bet.amount))

\* The delta of a bet over the integers: +amount on a win, -amount on a loss.
IntDelta(bet) == IF Won(bet) THEN bet.amount ELSE -bet.amount

RECURSIVE SetSum(_, _)
SetSum(f, S) ==
    IF S = {} THEN 0
    ELSE LET x == CHOOSE y \in S : TRUE IN f[x] + SetSum(f, S \ {x})

\* The sum of the integer deltas of user u over the first n bets.
RECURSIVE PrefixDelta(_, _, _)
PrefixDelta(bs, u, n) ==
    IF n = 0 THEN 0
    ELSE PrefixDelta(bs, u, n - 1) + (IF bs[n].user_id = u THEN IntDelta(bs[n]) ELSE 0)

\* user_deltas (lines 126-129): per user in the batch, the wrapped i64 sum.
RECURSIVE WrappedDelta(_, _, _)
WrappedDelta(bs, u, n) ==
    IF n = 0 THEN 0
    ELSE IF bs[n].user_id = u
         THEN Wrap(WrappedDelta(bs, u, n - 1) + BetDelta(bs[n]))
         ELSE WrappedDelta(bs, u, n - 1)
BetUsers(bs) == {bs[i].user_id : i \in DOMAIN bs}
UserDeltas(bs) == [u \in BetUsers(bs) |-> WrappedDelta(bs, u, Len(bs))]

SetMin(S) == CHOOSE x \in S : \A y \in S : x <= y
SetMax(S) == CHOOSE x \in S : \A y \in S : y <= x

\* A validation that looks at the bets before it looks at the size.
ValidateBatchBetsFirst(b) ==
    LET keys == DOMAIN b.initial_balances
        Unknown(i) == b.bets[i].user_id \notin keys
        Insufficient(i) == b.initial_balances[b.bets[i].user_id] < b.bets[i].amount
        bad == {i \in DOMAIN b.bets : Unknown(i) \/ Insufficient(i)}
    IN  IF b.bets = <<>> THEN "EmptyBatch"
        ELSE IF bad # {} /\ Unknown(SetMin(bad)) THEN "UnknownUser"
        ELSE IF bad # {} THEN "InsufficientBalance"
        ELSE IF Len(b.bets) > max_batch_size THEN "BatchTooLarge"
        ELSE "Ok"

\* validate_batch (lines 201-235): "Ok" or the error it returns.
ValidateBatch(b) ==
    LET keys == DOMAIN b.initial_balances
        Unknown(i) == b.bets[i].user_id \notin keys
        Insufficient(i) == b.initial_balances[b.bets[i].user_id] < b.bets[i].amount
        bad == {i \in DOMAIN b.bets : Unknown(i) \/ Insufficient(i)}
    IN  IF b.bets = <<>> THEN "EmptyBatch"
        ELSE IF Len(b.bets) > max_batch_size THEN "BatchTooLarge"
        ELSE IF bad = {} THEN "Ok"
        ELSE IF Unknown(SetMin(bad)) THEN "UnknownUser"
        ELSE "InsufficientBalance"

\* let final_balance = (initial_balance as i64 + delta) as u64;
FinalBalance(initial, delta) == AsU64(Wrap(AsI64(initial) + delta))
\* if final_balance as i64 != initial_balance as i64 + delta
NegativeBalanceDetected(initial, delta) ==
    AsI64(FinalBalance(initial, delta)) # Wrap(AsI64(initial) + delta)

DeltaOf(b, u) ==
    IF u \in BetUsers(b.bets) THEN UserDeltas(b.bets)[u] ELSE 0
UserSum(b) == Wrap(SetSum(UserDeltas(b.bets), BetUsers(b.bets)))
HouseDelta(b) == Wrap(-UserSum(b))
HouseFinalBalance(b) == AsU64(Wrap(AsI64(b.house_initial_balance) + HouseDelta(b)))

\* Some i64 operation of generate_witness leaves the range: a panic in a
\* build that checks overflow.  The sum over user_deltas.values() runs in
\* the map's order; with an unlucky order any partial sum can occur.
Overflows(b, unlucky) ==
    LET bs == b.bets
        keys == DOMAIN b.initial_balances
        D(u) == PrefixDelta(bs, u, Len(bs))
        ints == [u \in BetUsers(bs) |-> D(u)]
        total == SetSum(ints, BetUsers(bs))
    IN  \/ \E i \in DOMAIN bs : ~Fits(-AsI64(bs[i].amount))
        \/ \E u \in BetUsers(bs), n \in 1..Len(bs) : ~Fits(PrefixDelta(bs, u, n))
        \/ \E u \in keys : ~Fits(AsI64(b.initial_balances[u]) + D(u))
        \/ ~Fits(total)
        \/ unlucky /\ \E S \in SUBSET BetUsers(bs) : ~Fits(SetSum(ints, S))
        \/ ~Fits(-total)
        \/ ~Fits(AsI64(b.house_initial_balance) - total)

\* A padding that puts the dummy bets in front of the real ones.
PadFront(bs) ==
    [i \in 1..(max_batch_size - Len(bs)) |->
        [user_id |-> 0, amount |-> 0, guess |-> TRUE, outcome |-> FALSE]] \o bs

\* Bet::new(0, 0, true, false): the dummy bet that pads a batch.
DummyBet == [user_id |-> 0, amount |-> 0, guess |-> TRUE, outcome |-> FALSE]
RECURSIVE Pad(_)
Pad(bs) == IF Len(bs) < max_batch_size THEN Pad(Append(bs, DummyBet)) ELSE bs

\* AccountingCircuit::new (accounting.rs:102-118).
AccountingCircuitNew(bs, initial, final, house_initial, house_final) ==
    [bets |-> bs, initial_balances |-> initial, final_balances |-> final,
     house_initial |-> house_initial % FieldP, house_final |-> house_final % FieldP]

\* The circuit generate_witness builds for a valid batch (lines 176-195).
WitnessCircuit(b) ==
    LET keys == DOMAIN b.initial_balances IN
    AccountingCircuitNew(
        Pad(b.bets),
        [u \in ArrayIds |-> IF u \in keys THEN b.initial_balances[u] ELSE 0],
        [u \in ArrayIds |->
            IF u \in keys THEN FinalBalance(b.initial_balances[u], DeltaOf(b, u)) ELSE 0],
        b.house_initial_balance,
        HouseFinalBalance(b))

\* What generate_witness returns (lines 105-198).
GenerateWitnessResult(b, checks, unlucky) ==
    LET keys == DOMAIN b.initial_balances
        max_user_id == IF keys = {} THEN 0 ELSE SetMax(keys)
    IN  IF ValidateBatch(b) # "Ok" THEN ValidateBatch(b)
        ELSE IF checks /\ Overflows(b, unlucky) THEN "panic"
        ELSE IF \E u \in keys : NegativeBalanceDetected(b.initial_balances[u], DeltaOf(b, u))
             THEN "NegativeBalance"
        ELSE IF Wrap(UserSum(b) + HouseDelta(b)) # 0 THEN "ConservationViolation"
        ELSE IF max_user_id >= max_users THEN "BatchTooLarge"
        ELSE "Ok"

InitWitness ==
    /\ wbatch \in SettlementBatches
    /\ wres = "none"
    /\ circuit = <<>>
    /\ sat = "none"
    /\ muts = <<>>
    /\ phist = <<>>
    /\ overflowChecks \in BOOLEAN
    /\ balances = <<>>
    /\ readers = <<>>
    /\ shardOf = <<>>
    /\ tasks = <<>>
    /\ dbhist = <<>>
    /\ bets = <<>>
    /\ player_bets = <<>>
    /\ BetIdle
    /\ VrfIdle
    /\ CodecIdle
    /\ SvcIdle
    /\ mem = EmptyData
    /\ file = [kind |-> "absent", d |-> EmptyData]
    /\ channel = <<>>
    /\ batch = <<>>
    /\ pc = "off"
    /\ cur = NoCur
    /\ ledger = [b \in BatchIds |-> 0]
    /\ cfg = [solana |-> FALSE, prover |-> FALSE]
    /\ io = "none"
    /\ hist = [returned |-> 0, recovered |-> {}, received |-> <<>>]
    /\ budget = [sends |-> 0, crashes |-> 0]

\* WitnessGenerator::generate_witness(&settlement_batch).
GenerateWitness(unlucky) ==
    /\ wbatch # <<>>
    /\ wres = "none"
    /\ wres' = GenerateWitnessResult(wbatch, overflowChecks, unlucky)
    /\ circuit' = IF wres' = "Ok" THEN WitnessCircuit(wbatch) ELSE <<>>
    /\ UNCHANGED <<wbatch, sat>>
    /\ UNCHANGED <<settleVars, dbVars, betVars, callerVars, vrfVars, codecVars, svcVars>>

\* The value each variable of the constraint system gets from the circuit's
\* closures (accounting.rs:159-255), as field elements.
Bit(x) == IF x THEN 1 ELSE 0
Assignment(c) ==
    [initial_balances |-> c.initial_balances,
     final_balances |-> c.final_balances,
     house_initial |-> c.house_initial,
     house_final |-> c.house_final,
     rows |-> [i \in DOMAIN c.bets |->
        [user |-> c.bets[i].user_id % FieldP,
         amount |-> c.bets[i].amount % FieldP,
         guess |-> Bit(c.bets[i].guess),
         outcome |-> Bit(c.bets[i].outcome),
         won |-> Bit(Won(c.bets[i])),
         guess_outcome_product |-> Bit(c.bets[i].guess) * Bit(c.bets[i].outcome),
         delta |-> AsU64(Wrap(BetDelta(c.bets[i]) + DeltaOffset)) % FieldP]]]

\* The constraints generate_constraints enforces (lines 189-244), each
\* a * b = c in the field; nothing else is enforced (lines 257-259).
Satisfied(a) ==
    \A i \in DOMAIN a.rows :
        LET r == a.rows[i] IN
        /\ (r.guess * (r.guess - 1)) % FieldP = 0
        /\ (r.outcome * (r.outcome - 1)) % FieldP = 0
        /\ (r.guess * r.outcome) % FieldP = r.guess_outcome_product % FieldP
        /\ (1 - r.guess - r.outcome + 2 * r.guess_outcome_product) % FieldP
              = r.won % FieldP

\* generate_constraints on a fresh constraint system, then is_satisfied.
GenerateConstraints ==
    /\ circuit # <<>>
    /\ sat = "none"
    /\ sat' = IF Satisfied(Assignment(circuit)) THEN "satisfied" ELSE "unsatisfied"
    /\ UNCHANGED <<wbatch, wres, circuit>>
    /\ UNCHANGED <<settleVars, dbVars, betVars, callerVars, vrfVars, codecVars, svcVars>>

NextWitness ==
    \/ \E unlucky \in BOOLEAN : GenerateWitness(unlucky)
    \/ GenerateConstraints

SpecWitness == InitWitness /\ [][NextWitness]_vars

\* The sum of the integer deltas of user u in batch b, and of all users.
IntUserDelta(b, u) == PrefixDelta(b.bets, u, Len(b.bets))
IntUserSum(b) ==
    SetSum([u \in BetUsers(b.bets) |-> IntUserDelta(b, u)], BetUsers(b.bets))

\* The bets and balances a caller can hand to AccountingCircuit::new.
CircuitBets ==
    [user_id : ArrayIds, amount : 1..MaxAmount, guess : BOOLEAN, outcome : BOOLEAN]
CircuitBetSeqs == UNION {[1..n -> CircuitBets] : n \in 1..max_batch_size}

InitCircuit ==
    /\ wbatch = <<>>
    /\ wres = "none"
    /\ circuit = <<>>
    /\ sat = "none"
    /\ muts = <<>>
    /\ phist = <<>>
    /\ overflowChecks = FALSE
    /\ balances = <<>>
    /\ readers = <<>>
    /\ shardOf = <<>>
    /\ tasks = <<>>
    /\ dbhist = <<>>
    /\ bets = <<>>
    /\ player_bets = <<>>
    /\ BetIdle
    /\ VrfIdle
    /\ CodecIdle
    /\ SvcIdle
    /\ mem = EmptyData
    /\ file = [kind |-> "absent", d |-> EmptyData]
    /\ channel = <<>>
    /\ batch = <<>>
    /\ pc = "off"
    /\ cur = NoCur
    /\ ledger = [b \in BatchIds |-> 0]
    /\ cfg = [solana |-> FALSE, prover |-> FALSE]
    /\ io = "none"
    /\ hist = [returned |-> 0, recovered |-> {}, received |-> <<>>]
    /\ budget = [sends |-> 0, crashes |-> 0]

\* A caller builds a circuit with AccountingCircuit::new from bets and
\* balances of its own choice.
BuildCircuit(bs, initial, final, house_initial, house_final) ==
    /\ circuit = <<>>
    /\ circuit' = AccountingCircuitNew(bs, initial, final, house_initial, house_final)
    /\ UNCHANGED <<wbatch, wres, sat>>
    /\ UNCHANGED <<settleVars, dbVars, betVars, callerVars, vrfVars, codecVars, svcVars>>

NextCircuit ==
    \/ /\ circuit = <<>>
       /\ \E bs \in CircuitBetSeqs,
             initial \in [ArrayIds -> 1..MaxAmount],
             final \in [ArrayIds -> 0..(2 * MaxAmount)],
             house_final \in 0..(2 * MaxAmount) :
             BuildCircuit(bs, initial, final, MaxAmount, house_final)
    \/ GenerateConstraints

SpecCircuit == InitCircuit /\ [][NextCircuit]_vars

\* The conservation equalities over the field: per user of the balance
\* arrays, and for the house.
CircuitDelta(c, u) ==
    SetSum([i \in DOMAIN c.bets |-> IF c.bets[i].user_id = u THEN IntDelta(c.bets[i]) ELSE 0],
           DOMAIN c.bets)
Conserves(c) ==
    /\ \A u \in ArrayIds :
          (c.final_balances[u] - c.initial_balances[u] - CircuitDelta(c, u)) % FieldP = 0
    /\ (c.house_final - c.house_initial
          + SetSum([u \in ArrayIds |-> CircuitDelta(c, u)], ArrayIds)) % FieldP = 0

(***************************************************************************)
(* Concurrent mutator calls on one SettlementPersistence                   *)
(* (settlement_persistence.rs): create_batch and store_transaction, each   *)
(* a mutation under the write lock followed by save_to_file, which holds   *)
(* the read lock from the snapshot to the end of fs::write.  fs::write     *)
(* opens the file with truncation and then writes.                         *)
(***************************************************************************)
IdleCaller == [pc |-> "idle", snap |-> EmptyData, snapver |-> 0, ver |-> 0]

\* The callers that hold a read guard on `data`.
ReadGuards == {t \in Tasks : muts[t].pc \in {"locked", "opened", "written"}}

InitCallers ==
    /\ mem = EmptyData
    /\ file = [kind |-> "absent", d |-> EmptyData]
    /\ muts = [t \in Tasks |-> IdleCaller]
    /\ phist = [ver |-> 0, filever |-> 0, acked |-> {}, missed |-> {}]
    /\ channel = <<>>
    /\ batch = <<>>
    /\ pc = "off"
    /\ cur = NoCur
    /\ ledger = [b \in BatchIds |-> 0]
    /\ cfg = [solana |-> FALSE, prover |-> FALSE]
    /\ io = "none"
    /\ hist = [returned |-> 0, recovered |-> {}, received |-> <<>>]
    /\ budget = [sends |-> 0, crashes |-> 0]
    /\ DbIdle
    /\ BetIdle
    /\ VrfIdle
    /\ CodecIdle
    /\ SvcIdle
    /\ wbatch = <<>>
    /\ wres = "none"
    /\ circuit = <<>>
    /\ sat = "none"

callerFrame ==
    <<channel, batch, pc, cur, ledger, cfg, io, hist, budget, dbVars, betVars, proverVars,
      vrfVars, codecVars, svcVars>>

\* The mutation of a call: data.write().await is granted when no guard is
\* held; the data is changed and the guard dropped (create_batch lines
\* 156-179, store_transaction lines 239-246).
Mutate(t, d) ==
    /\ muts[t].pc = "idle"
    /\ ReadGuards = {}
    /\ phist.ver < MaxCalls
    /\ mem' = d
    /\ phist' = [phist EXCEPT !.ver = @ + 1]
    /\ muts' = [muts EXCEPT ![t] = [IdleCaller EXCEPT !.pc = "mutated", !.ver = phist.ver + 1]]
    /\ UNCHANGED file
    /\ UNCHANGED callerFrame

CallCreateBatch(t, items) == Mutate(t, CreateBatchMem(mem, items))
CallStoreTransaction(t, id, sig) == Mutate(t, StoreTransactionMem(mem, id, sig))

\* save_to_file, lines 113-114: the read guard is taken (no writer holds
\* the lock: a mutation is one step) and the data serialised.
SaveLock(t) ==
    /\ muts[t].pc = "mutated"
    /\ muts' = [muts EXCEPT ![t].pc = "locked", ![t].snap = mem, ![t].snapver = phist.ver]
    /\ UNCHANGED <<mem, file, phist>>
    /\ UNCHANGED callerFrame

\* fs::write, first half: the file is created or truncated.  When that
\* fails the call returns the error with the file untouched.
SaveOpen(t, ok) ==
    /\ muts[t].pc = "locked"
    /\ IF ok
       THEN /\ file' = [kind |-> "corrupt", d |-> EmptyData]
            /\ phist' = [phist EXCEPT !.filever = 0]
            /\ muts' = [muts EXCEPT ![t].pc = "opened"]
       ELSE /\ muts' = [muts EXCEPT ![t] = IdleCaller]
            /\ UNCHANGED <<file, phist>>
    /\ UNCHANGED mem
    /\ UNCHANGED callerFrame

\* fs::write, second half: the snapshot is written; or the write fails,
\* the file stays as it is and the call returns the error.
SaveWrite(t, ok) ==
    /\ muts[t].pc = "opened"
    /\ IF ok
       THEN /\ file' = [kind |-> "data", d |-> muts[t].snap]
            /\ phist' = [phist EXCEPT !.filever = muts[t].snapver]
            /\ muts' = [muts EXCEPT ![t].pc = "written"]
       ELSE /\ muts' = [muts EXCEPT ![t] = IdleCaller]
            /\ UNCHANGED <<file, phist>>
    /\ UNCHANGED mem
    /\ UNCHANGED callerFrame

\* The file holds a snapshot with the mutation numbered v.
FileHolds(v) == file.kind = "data" /\ phist.filever >= v

\* save_to_file returns Ok(()), the guard is dropped and the mutator
\* returns Ok to its caller.  The history notes the call, and whether the
\* file held its mutation at that moment.
SaveReturn(t) ==
    /\ muts[t].pc = "written"
    /\ phist' = [phist EXCEPT !.acked = @ \cup {muts[t].ver},
                              !.missed = IF FileHolds(muts[t].ver) THEN @
                                         ELSE @ \cup {muts[t].ver}]
    /\ muts' = [muts EXCEPT ![t] = IdleCaller]
    /\ UNCHANGED <<mem, file>>
    /\ UNCHANGED callerFrame

NextCallers ==
    \/ \E t \in Tasks, items \in {<<id>> : id \in BetIds} : CallCreateBatch(t, items)
    \/ \E t \in Tasks, id \in DOMAIN mem.batches : CallStoreTransaction(t, id, "sig")
    \/ \E t \in Tasks : SaveLock(t)
    \/ \E t \in Tasks, ok \in BOOLEAN : SaveOpen(t, ok)
    \/ \E t \in Tasks, ok \in BOOLEAN : SaveWrite(t, ok)
    \/ \E t \in Tasks : SaveReturn(t)

SpecCallers == InitCallers /\ [][NextCallers]_vars

(***************************************************************************)
(* The VRF engine (sequencer/src/vrf/keypair.rs, vrf/mod.rs).              *)
(*                                                                         *)
(* ed25519 is the ed25519_dalek crate; it is modelled by its contract: a   *)
(* public key is a function of the secret key, signing is a function of    *)
(* the secret key and the message, and a signature verifies under a public *)
(* key exactly when a secret key of that public key signs the message to   *)
(* it.  Signatures are two bytes here, SHA-256 digests are numbers below   *)
(* DigestSpace.                                                            *)
(***************************************************************************)
SecretKeys == 1..NumKeys
SigBytes == 0..(ByteSpace - 1)

\* PublicKey::from(&secret_key)
PublicKeyOf(secret) == secret + NumKeys

\* Keypair::sign
Sign(secret, message) ==
    <<(3 * secret + message) % ByteSpace, (secret + 3 * message + 1) % ByteSpace>>

\* PublicKey::verify
Verify(public, message, signature) ==
    \E secret \in SecretKeys :
        PublicKeyOf(secret) = public /\ Sign(secret, message) = signature

\* b"vrf_keypair_validation_test"
TestMessage == 0

\* VRFKeypair::validate (keypair.rs:156-172)
Validate(secret) ==
    IF Verify(PublicKeyOf(secret), TestMessage, Sign(secret, TestMessage))
    THEN "Ok" ELSE "InvalidKeypair"

\* The key files: the one the environment variable may name and the
\* default one.  A file is missing (or unreadable), holds something that
\* is no keypair, or holds a keypair.
KeyPaths == {"env_path", "default_path"}
NoFile == [kind |-> "missing", secret |-> 0]
BadFile == [kind |-> "corrupt", secret |-> 0]
KeyFile(secret) == [kind |-> "key", secret |-> secret]
FileStates == {NoFile, BadFile} \cup {KeyFile(k) : k \in SecretKeys}

KeyOk(secret) == [err |-> "Ok", secret |-> secret, public |-> PublicKeyOf(secret)]
KeyErr(e) == [err |-> e, secret |-> 0, public |-> 0]

\* VRFKeypair::from_file (keypair.rs:69-83)
FromFile(path) ==
    IF keyfiles[path].kind = "key" THEN KeyOk(keyfiles[path].secret)
    ELSE KeyErr("LoadError")

\* VRFKeypair::from_env (keypair.rs:59-66)
FromEnv ==
    IF env = "unset" THEN KeyErr("EnvironmentError") ELSE FromFile(env)

\* keypair.validate()?; Ok(keypair)
Validated(k) ==
    IF Validate(k.secret) = "Ok" THEN k ELSE KeyErr(Validate(k.secret))

\* What save_to_file can do: write the file, fail before the file is
\* touched, or fail after fs::write has truncated it.
SaveOutcomes == {"saved", "failed", "partial"}

InitKeys ==
    /\ env \in {"unset", "env_path"}
    /\ keyfiles \in [KeyPaths -> FileStates]
    /\ keylog = <<>>
    /\ keypair = <<>>
    /\ proofs = <<>>
    /\ CodecIdle
    /\ SvcIdle
    /\ DbIdle
    /\ BetIdle
    /\ wbatch = <<>>
    /\ wres = "none"
    /\ circuit = <<>>
    /\ sat = "none"
    /\ muts = <<>>
    /\ phist = <<>>
    /\ mem = EmptyData
    /\ file = [kind |-> "absent", d |-> EmptyData]
    /\ channel = <<>>
    /\ batch = <<>>
    /\ pc = "off"
    /\ cur = NoCur
    /\ ledger = [b \in BatchIds |-> 0]
    /\ cfg = [solana |-> FALSE, prover |-> FALSE]
    /\ io = "none"
    /\ hist = [returned |-> 0, recovered |-> {}, received |-> <<>>]
    /\ budget = [sends |-> 0, crashes |-> 0]

\* VRFKeypair::generate_and_save (keypair.rs:176-180): the file after the
\* call and what the call returns, for a key `fresh` drawn from the OS.
SavedFiles(path, fresh, save) ==
    IF save = "saved" THEN [keyfiles EXCEPT ![path] = KeyFile(fresh)]
    ELSE IF save = "partial" THEN [keyfiles EXCEPT ![path] = BadFile]
    ELSE keyfiles
GenerateAndSave(fresh, save) ==
    IF save = "saved" THEN KeyOk(fresh) ELSE KeyErr("SaveError")

\* VRFKeypair::load_or_generate (keypair.rs:183-208), called with the
\* environment variable and "default_path".
LoadOrGenerateResult(fresh, save) ==
    IF FromEnv.err = "Ok" THEN Validated(FromEnv)
    ELSE IF FromEnv.err = "EnvironmentError"
    THEN IF FromFile("default_path").err = "Ok"
         THEN Validated(FromFile("default_path"))
         ELSE IF GenerateAndSave(fresh, save).err = "Ok"
              THEN Validated(GenerateAndSave(fresh, save))
              ELSE GenerateAndSave(fresh, save)
    ELSE FromEnv

LoadOrGenerate(fresh, save) ==
    /\ Len(keylog) < MaxLoads
    /\ keyfiles' =
          IF FromEnv.err = "EnvironmentError" /\ FromFile("default_path").err # "Ok"
          THEN SavedFiles("default_path", fresh, save)
          ELSE keyfiles
    /\ keylog' = Append(keylog,
          [before |-> keyfiles, result |-> LoadOrGenerateResult(fresh, save),
           generated |-> (FromEnv.err = "EnvironmentError"
                            /\ FromFile("default_path").err # "Ok")])
    /\ UNCHANGED <<env, keypair, proofs>>
    /\ UNCHANGED <<settleVars, dbVars, betVars, proverVars, callerVars, codecVars, svcVars>>

NextKeys ==
    \E fresh \in SecretKeys, save \in SaveOutcomes : LoadOrGenerate(fresh, save)

SpecKeys == InitKeys /\ [][NextKeys]_vars

(***************************************************************************)
(* VRF proofs (vrf/mod.rs): create_vrf_proof, create_vrf_proof_from_string *)
(* and VRFProof::verify, called with the process's keypair.                *)
(***************************************************************************)
VrfUsers == 0..1
VrfNonces == 0..MaxNonce
BetIdStrings == {"bet_a", "bet_b"}

\* SHA-256 of bet_id.to_be_bytes() || user || nonce.to_be_bytes(), as a
\* fixed function into the digests (mod.rs:103-117).
generate_vrf_message(bet_id, user, nonce) ==
    (5 * bet_id + 3 * user + 7 * nonce + 1) % DigestSpace

\* The first 8 bytes of SHA-256(bet_id.as_bytes()) as a big-endian u64
\* (mod.rs:124-130).
BetIdHash(bet_id) == IF bet_id = "bet_a" THEN 2 ELSE 11

\* mod.rs:122-133
generate_vrf_message_from_string(bet_id, user, nonce) ==
    generate_vrf_message(BetIdHash(bet_id), user, nonce)

\* An outcome read from the last byte of the signature.
OutcomeOfLastByte(signature) == (signature[2] % 2) = 0

\* keypair.rs:150: let outcome = (signature_bytes[0] & 1) == 0;
OutcomeOfSignature(signature) == (signature[1] % 2) = 0

\* VRFKeypair::sign_and_derive_outcome (keypair.rs:145-153)
sign_and_derive_outcome(secret, message) ==
    [signature |-> Sign(secret, message),
     outcome |-> OutcomeOfSignature(Sign(secret, message))]

\* VRFProof::new
VRFProof(message, signature, public_key, outcome) ==
    [message |-> message, signature |-> signature,
     public_key |-> public_key, outcome |-> outcome]

\* mod.rs:138-149 and 152-163
create_vrf_proof(secret, bet_id, user, nonce) ==
    LET message == generate_vrf_message(bet_id, user, nonce)
        signed == sign_and_derive_outcome(secret, message)
    IN  VRFProof(message, signed.signature, PublicKeyOf(secret), signed.outcome)
create_vrf_proof_from_string(secret, bet_id, user, nonce) ==
    LET message == generate_vrf_message_from_string(bet_id, user, nonce)
        signed == sign_and_derive_outcome(secret, message)
    IN  VRFProof(message, signed.signature, PublicKeyOf(secret), signed.outcome)

\* VRFProof::verify (mod.rs:65-86): the signature verifies under the
\* proof's public key, and the outcome is the one the signature's first
\* byte gives (line 84-85).
derived_outcome(signature) == (signature[1] % 2) = 0
ProofVerify(proof) ==
    /\ Verify(proof.public_key, proof.message, proof.signature)
    /\ derived_outcome(proof.signature) = proof.outcome

\* The same proof with the other outcome flag.
FlipOutcome(proof) == [proof EXCEPT !.outcome = ~@]

InitVrf ==
    /\ keypair \in SecretKeys
    /\ proofs = <<>>
    /\ env = <<>>
    /\ keyfiles = <<>>
    /\ keylog = <<>>
    /\ CodecIdle
    /\ SvcIdle
    /\ DbIdle
    /\ BetIdle
    /\ wbatch = <<>>
    /\ wres = "none"
    /\ circuit = <<>>
    /\ sat = "none"
    /\ muts = <<>>
    /\ phist = <<>>
    /\ mem = EmptyData
    /\ file = [kind |-> "absent", d |-> EmptyData]
    /\ channel = <<>>
    /\ batch = <<>>
    /\ pc = "off"
    /\ cur = NoCur
    /\ ledger = [b \in BatchIds |-> 0]
    /\ cfg = [solana |-> FALSE, prover |-> FALSE]
    /\ io = "none"
    /\ hist = [returned |-> 0, recovered |-> {}, received |-> <<>>]
    /\ budget = [sends |-> 0, crashes |-> 0]

vrfFrame ==
    <<env, keyfiles, keylog, keypair, settleVars, dbVars, betVars, proverVars,
      callerVars, codecVars, svcVars>>

\* A call of create_vrf_proof: the arguments and the proof returned.
CreateVrfProof(bet_id, user, nonce) ==
    /\ Len(proofs) < MaxProofs
    /\ proofs' = Append(proofs,
          [kind |-> "u64", bet_id |-> bet_id, bet_str |-> "", user |-> user,
           nonce |-> nonce,
           proof |-> create_vrf_proof(keypair, bet_id, user, nonce),
           checked |-> FALSE, verified |-> FALSE, flipped_verified |-> FALSE])
    /\ UNCHANGED vrfFrame

CreateVrfProofFromString(bet_id, user, nonce) ==
    /\ Len(proofs) < MaxProofs
    /\ proofs' = Append(proofs,
          [kind |-> "str", bet_id |-> 0, bet_str |-> bet_id, user |-> user,
           nonce |-> nonce,
           proof |-> create_vrf_proof_from_string(keypair, bet_id, user, nonce),
           checked |-> FALSE, verified |-> FALSE, flipped_verified |-> FALSE])
    /\ UNCHANGED vrfFrame

\* A client checks a proof it was given: verify() of the proof, and of the
\* proof with the other outcome flag.
VerifyProof(i) ==
    /\ ~proofs[i].checked
    /\ proofs' = [proofs EXCEPT ![i].checked = TRUE,
                    ![i].verified = ProofVerify(proofs[i].proof),
                    ![i].flipped_verified = ProofVerify(FlipOutcome(proofs[i].proof))]
    /\ UNCHANGED vrfFrame

NextVrf ==
    \/ \E bet_id \in BetIds, user \in VrfUsers, nonce \in VrfNonces :
          CreateVrfProof(bet_id, user, nonce)
    \/ \E bet_id \in BetIdStrings, user \in VrfUsers, nonce \in VrfNonces :
          CreateVrfProofFromString(bet_id, user, nonce)
    \/ \E i \in 1..Len(proofs) : VerifyProof(i)

SpecVrf == InitVrf /\ [][NextVrf]_vars

(***************************************************************************)
(* The settlement prover's address mapping                                 *)
(* (settlement_prover.rs:144-161).                                         *)
(***************************************************************************)
\* The first four bytes of the public keys a player address can parse to,
\* and the addresses that are no public key.
PubkeyPrefixes == {<<b0, b1, 0, 0>> : b0 \in {0, 4, 232}, b1 \in {0, 3}}
PlainAddresses == {"test_user", "player_7"}
PlayerAddresses ==
    {[pubkey |-> TRUE, bytes |-> b, str |-> ""] : b \in PubkeyPrefixes}
      \cup {[pubkey |-> FALSE, bytes |-> <<0, 0, 0, 0>>, str |-> s] : s \in PlainAddresses}

\* u32::from_le_bytes([bytes[0], bytes[1], bytes[2], bytes[3]])
U32FromLeBytes(bytes) ==
    bytes[1] + ByteBase * bytes[2] + ByteBase * ByteBase * bytes[3]
      + ByteBase * ByteBase * ByteBase * bytes[4]

\* DefaultHasher::new() has fixed keys: finish() is a function of the
\* string.  The two values stand for the hashes of the two strings.
DefaultHash(str) == IF str = "test_user" THEN 987002 ELSE 321003

\* SettlementProver::parse_user_id
parse_user_id(player_address) ==
    IF player_address.pubkey
    THEN U32FromLeBytes(player_address.bytes) % UserIdModulus
    ELSE DefaultHash(player_address.str) % UserIdModulus

\* The prover is built with the default configuration or with one that
\* allows more users.
InitUserId ==
    /\ uidlog \in {[max_users |-> m, calls |-> <<>>] : m \in {DefaultMaxUsers, UserIdModulus}}
    /\ wire = <<>>
    /\ SvcIdle
    /\ VrfIdle
    /\ DbIdle
    /\ BetIdle
    /\ wbatch = <<>>
    /\ wres = "none"
    /\ circuit = <<>>
    /\ sat = "none"
    /\ muts = <<>>
    /\ phist = <<>>
    /\ mem = EmptyData
    /\ file = [kind |-> "absent", d |-> EmptyData]
    /\ channel = <<>>
    /\ batch = <<>>
    /\ pc = "off"
    /\ cur = NoCur
    /\ ledger = [b \in BatchIds |-> 0]
    /\ cfg = [solana |-> FALSE, prover |-> FALSE]
    /\ io = "none"
    /\ hist = [returned |-> 0, recovered |-> {}, received |-> <<>>]
    /\ budget = [sends |-> 0, crashes |-> 0]

ParseUserId(player_address) ==
    /\ Len(uidlog.calls) < MaxParses
    /\ uidlog' = [uidlog EXCEPT !.calls = Append(@,
          [player_address |-> player_address,
           user_id |-> parse_user_id(player_address)])]
    /\ UNCHANGED <<wire, svcVars, vrfVars, settleVars, dbVars, betVars, proverVars, callerVars>>

NextUserId == \E player_address \in PlayerAddresses : ParseUserId(player_address)

SpecUserId == InitUserId /\ [][NextUserId]_vars

(***************************************************************************)
(* Proof transport: SerializableProof::to_bytes and from_bytes             *)
(* (prover/src/proof_generator.rs:53-127).  Bytes, u32 (4 bytes) and u64   *)
(* (8 bytes) are as in the code; a field element takes FrLen bytes and a   *)
(* Groth16 proof three curve points of one, two and one byte.              *)
(***************************************************************************)
RECURSIVE to_be_bytes(_, _)
\* The n bytes of x, most significant first.
to_be_bytes(x, n) ==
    IF n = 0 THEN <<>> ELSE Append(to_be_bytes(x \div ByteBase, n - 1), x % ByteBase)

RECURSIVE to_le_bytes(_, _)
\* u32::to_le_bytes (n = 4), u64::to_le_bytes (n = 8)
to_le_bytes(x, n) ==
    IF n = 0 THEN <<>> ELSE <<x % ByteBase>> \o to_le_bytes(x \div ByteBase, n - 1)

RECURSIVE from_le_bytes(_)
\* u32::from_le_bytes, u64::from_le_bytes
from_le_bytes(buf) ==
    IF buf = <<>> THEN 0 ELSE Head(buf) + ByteBase * from_le_bytes(Tail(buf))

\* Fr::serialize_compressed and Fr::deserialize_compressed: little-endian,
\* and only numbers below the modulus are field elements.
FrSerialize(input) == to_le_bytes(input, FrLen)
FrValid(buf) == Len(buf) = FrLen /\ from_le_bytes(buf) < FieldP

\* Proof<Bn254>::serialize_compressed: the points a (G1), b (G2), c (G1).
\* deserialize_compressed accepts the encodings of curve points only.
CurvePoints == {3, 200}
CurvePoints2 == {5, 700}
ProofSerialize(proof) ==
    <<proof.a>> \o to_le_bytes(proof.b, 2) \o <<proof.c>>
ProofValid(buf) ==
    /\ Len(buf) = 4
    /\ buf[1] \in CurvePoints
    /\ from_le_bytes(SubSeq(buf, 2, 3)) \in CurvePoints2
    /\ buf[4] \in CurvePoints
ProofDeserialize(buf) ==
    [a |-> buf[1], b |-> from_le_bytes(SubSeq(buf, 2, 3)), c |-> buf[4]]

Groth16Proofs == {[a |-> 3, b |-> 700, c |-> 200], [a |-> 200, b |-> 5, c |-> 200]}
FrValues == {0, 1, FieldP - 1}
RECURSIVE SeqsUpTo(_, _)
SeqsUpTo(S, n) ==
    IF n = 0 THEN {<<>>}
    ELSE SeqsUpTo(S, n - 1) \cup {Append(s, x) : s \in {t \in SeqsUpTo(S, n - 1) : Len(t) = n - 1}, x \in S}

\* The proofs from_bytes and to_bytes are applied to.
SerializableProofs ==
    [proof : Groth16Proofs, public_inputs : SeqsUpTo(FrValues, MaxInputs),
     batch_id : {1, 999, 70000}, timestamp : {0, 1700000000}]

RECURSIVE WriteInputs(_)
\* to_bytes lines 64-69: each input as its length and its bytes
WriteInputs(inputs) ==
    IF inputs = <<>> THEN <<>>
    ELSE to_le_bytes(Len(FrSerialize(Head(inputs))), 4) \o FrSerialize(Head(inputs))
           \o WriteInputs(Tail(inputs))

\* SerializableProof::to_bytes
to_bytes(p) ==
    to_le_bytes(p.batch_id, 4) \o to_le_bytes(p.timestamp, 8)
      \o to_le_bytes(Len(p.public_inputs), 4)
      \o WriteInputs(p.public_inputs)
      \o to_le_bytes(Len(ProofSerialize(p.proof)), 4) \o ProofSerialize(p.proof)

\* data.read_exact(&mut buf): the next n bytes, if there are n.
CanRead(data, n) == Len(data) >= n
Read(data, n) == SubSeq(data, 1, n)
Skip(data, n) == SubSeq(data, n + 1, Len(data))

NoProof == [proof |-> [a |-> 0, b |-> 0, c |-> 0], public_inputs |-> <<>>,
            batch_id |-> 0, timestamp |-> 0]
DecodeErr(e) == [err |-> e, value |-> NoProof]

RECURSIVE ReadInputs(_, _, _)
\* from_bytes lines 96-106: the loop over the public inputs; gives the
\* inputs read and the bytes left, or the error that ended the call.
ReadInputs(data, remaining, public_inputs) ==
    IF remaining = 0 THEN [err |-> "Ok", public_inputs |-> public_inputs, data |-> data]
    ELSE IF ~CanRead(data, 4) THEN [err |-> "Io", public_inputs |-> <<>>, data |-> <<>>]
    ELSE LET input_len == from_le_bytes(Read(data, 4))
             rest == Skip(data, 4)
         IN  IF ~CanRead(rest, input_len)
             THEN [err |-> "Io", public_inputs |-> <<>>, data |-> <<>>]
             ELSE IF ~FrValid(Read(rest, input_len))
             THEN [err |-> "Serialization", public_inputs |-> <<>>, data |-> <<>>]
             ELSE ReadInputs(Skip(rest, input_len), remaining - 1,
                             Append(public_inputs, from_le_bytes(Read(rest, input_len))))

\* SerializableProof::from_bytes
from_bytes(data) ==
    IF ~CanRead(data, 4) THEN DecodeErr("Io")
    ELSE IF ~CanRead(Skip(data, 4), 8) THEN DecodeErr("Io")
    ELSE IF ~CanRead(Skip(data, 12), 4) THEN DecodeErr("Io")
    ELSE LET batch_id == from_le_bytes(Read(data, 4))
             timestamp == from_le_bytes(Read(Skip(data, 4), 8))
             num_inputs == from_le_bytes(Read(Skip(data, 12), 4))
             inputs == ReadInputs(Skip(data, 16), num_inputs, <<>>)
         IN  IF inputs.err # "Ok" THEN DecodeErr(inputs.err)
             ELSE IF ~CanRead(inputs.data, 4) THEN DecodeErr("Io")
             ELSE LET proof_len == from_le_bytes(Read(inputs.data, 4))
                      rest == Skip(inputs.data, 4)
                  IN  IF ~CanRead(rest, proof_len) THEN DecodeErr("Io")
                      ELSE IF ~ProofValid(Read(rest, proof_len))
                      THEN DecodeErr("Serialization")
                      ELSE [err |-> "Ok",
                            value |-> [proof |-> ProofDeserialize(Read(rest, proof_len)),
                                       public_inputs |-> inputs.public_inputs,
                                       batch_id |-> batch_id, timestamp |-> timestamp]]

InitWire ==
    /\ wire \in {[p |-> p, frame |-> <<>>, written |-> FALSE, cut |-> 0,
                  decoded |-> DecodeErr("none")] : p \in SerializableProofs}
    /\ uidlog = <<>>
    /\ SvcIdle
    /\ VrfIdle
    /\ DbIdle
    /\ BetIdle
    /\ wbatch = <<>>
    /\ wres = "none"
    /\ circuit = <<>>
    /\ sat = "none"
    /\ muts = <<>>
    /\ phist = <<>>
    /\ mem = EmptyData
    /\ file = [kind |-> "absent", d |-> EmptyData]
    /\ channel = <<>>
    /\ batch = <<>>
    /\ pc = "off"
    /\ cur = NoCur
    /\ ledger = [b \in BatchIds |-> 0]
    /\ cfg = [solana |-> FALSE, prover |-> FALSE]
    /\ io = "none"
    /\ hist = [returned |-> 0, recovered |-> {}, received |-> <<>>]
    /\ budget = [sends |-> 0, crashes |-> 0]

wireFrame == <<uidlog, svcVars, vrfVars, settleVars, dbVars, betVars, proverVars, callerVars>>

\* p.to_bytes()
ToBytes ==
    /\ ~wire.written
    /\ wire' = [wire EXCEPT !.frame = to_bytes(wire.p), !.written = TRUE]
    /\ UNCHANGED wireFrame

\* SerializableProof::from_bytes on the first `cut` bytes of the frame: on
\* the whole frame, or on a truncated one.
FromBytes(cut) ==
    /\ wire.written
    /\ wire.decoded.err = "none"
    /\ cut <= Len(wire.frame)
    /\ wire' = [wire EXCEPT !.cut = cut,
                            !.decoded = from_bytes(SubSeq(wire.frame, 1, cut))]
    /\ UNCHANGED wireFrame

\* The longest frame: header, inputs, proof.
MaxFrameLen == 16 + MaxInputs * (4 + FrLen) + 4 + 4

NextWire ==
    \/ ToBytes
    \/ \E cut \in 0..MaxFrameLen : FromBytes(cut)

SpecWire == InitWire /\ [][NextWire]_vars

(***************************************************************************)
(* The Solana client's retry loop: send_transaction_with_retry             *)
(* (sequencer/src/solana.rs:221-238).  One call is followed from its       *)
(* entry to its return; each send_transaction and each sleep is an await   *)
(* point of the call.                                                      *)
(***************************************************************************)
\* The components that are not running in the specifications below.
SettleOff ==
    /\ mem = EmptyData
    /\ file = [kind |-> "absent", d |-> EmptyData]
    /\ channel = <<>>
    /\ batch = <<>>
    /\ pc = "off"
    /\ cur = NoCur
    /\ ledger = [b \in BatchIds |-> 0]
    /\ cfg = [solana |-> FALSE, prover |-> FALSE]
    /\ io = "none"
    /\ hist = [returned |-> 0, recovered |-> {}, received |-> <<>>]
    /\ budget = [sends |-> 0, crashes |-> 0]

\* SolanaConfig.retry_delay_ms of SolanaConfig::default().
RetryDelayMs == 1000

\* What one send_transaction can return: a signature, or an error of the
\* blocking task, of the blockhash request or of the send itself.
SendErrors == {"join", "blockhash", "send"}
SendOutcomes == {[ok |-> TRUE, val |-> "signature"]} \cup
                {[ok |-> FALSE, val |-> e] : e \in SendErrors}

\* retry_attempts is a public field of SolanaConfig (u32): the default and
\* every smaller value, 0 included.
RetryConfigs == [retry_attempts : 0..RetryAttempts, retry_delay_ms : {0, RetryDelayMs}]

InitRetry ==
    /\ retry \in {[config |-> c, pc |-> "call", attempt |-> 0, outcomes |-> <<>>,
                   events |-> <<>>, slept_ms |-> 0,
                   result |-> [ok |-> FALSE, val |-> "none"]] : c \in RetryConfigs}
    /\ sprover = <<>>
    /\ plog = <<>>
    /\ SettleOff
    /\ DbIdle
    /\ BetIdle
    /\ VrfIdle
    /\ CodecIdle
    /\ ProverIdle

retryFrame == <<sprover, plog, settleVars, dbVars, betVars, proverVars, callerVars,
                vrfVars, codecVars>>

\* for attempt in 1..=retry_attempts: the range is empty when retry_attempts
\* is 0, the loop body is never entered and unreachable!() (line 237) panics.
EnterLoop ==
    /\ retry.pc = "call"
    /\ retry' = IF 1 <= retry.config.retry_attempts
                THEN [retry EXCEPT !.pc = "send", !.attempt = 1]
                ELSE [retry EXCEPT !.pc = "panicked"]
    /\ UNCHANGED retryFrame

\* send_transaction(..).await returns: Ok returns the signature (line 227);
\* Err on the last attempt returns the error (lines 229-231), on an earlier
\* attempt goes on to the sleep (line 233).
SendTransaction(outcome) ==
    /\ retry.pc = "send"
    /\ retry' = [retry EXCEPT
          !.outcomes = Append(@, outcome),
          !.events = Append(@, "send"),
          !.pc = IF outcome.ok \/ retry.attempt = retry.config.retry_attempts
                 THEN "returned" ELSE "sleep",
          !.result = IF outcome.ok \/ retry.attempt = retry.config.retry_attempts
                     THEN outcome ELSE @]
    /\ UNCHANGED retryFrame

\* sleep(retry_delay_ms).await is over: the next iteration of the loop.
SleepDone ==
    /\ retry.pc = "sleep"
    /\ retry' = [retry EXCEPT !.pc = "send", !.attempt = @ + 1,
                              !.events = Append(@, "sleep"),
                              !.slept_ms = @ + retry.config.retry_delay_ms]
    /\ UNCHANGED retryFrame

NextRetry ==
    \/ EnterLoop
    \/ \E outcome \in SendOutcomes : SendTransaction(outcome)
    \/ SleepDone

SpecRetry == InitRetry /\ [][NextRetry]_vars

(***************************************************************************)
(* The settlement prover (sequencer/src/settlement_prover.rs) driven by    *)
(* process_settlement_batch (main.rs:244-340): each batch is persisted     *)
(* with create_batch and then handed to generate_proof.  The prover is     *)
(* configured so that proofs can be generated: ProofGenerator::new gets    *)
(* (config.max_users, config.max_bets_per_batch) as (max_batch_size,       *)
(* max_users), which are the sizes of the witness generator above.  The    *)
(* balances stay far below 2^63, so no i64 operation overflows and the     *)
(* `as i64` and `as u64` casts of non-negative values are the identity.    *)
(***************************************************************************)
MaxProverCalls == 2

\* SettlementProverConfig.house_initial_balance (1_000_000 by default),
\* scaled down; no sequence of MaxProverCalls batches can use it up.
house_initial_balance == 8

ProverConfig ==
    [max_users |-> max_batch_size, max_bets_per_batch |-> max_users,
     house_initial_balance |-> house_initial_balance]

\* SettlementProver::new followed by the init_user_balance calls: the
\* counter starts at 0, the house at its configured balance.
NewSettlementProver(seeds) ==
    [batch_counter |-> 0, user_balances |-> seeds,
     house_balance |-> ProverConfig.house_initial_balance, seeds |-> seeds]

\* The balances init_user_balance sets up.
SeedBalances == UNION {[K -> 1..MaxAmount] : K \in (SUBSET ArrayIds) \ {{}}}

\* The batches process_settlement_batch is given here: up to one bet more
\* than the prover takes.
ProverBets == UNION {[1..n -> SettlementBets] : n \in 1..(max_batch_size + 1)}

\* The bet ids of the items, as create_batch records them: fresh ones for
\* every batch.
ItemIds(bs, batches_before) ==
    [i \in DOMAIN bs |-> batches_before * (max_batch_size + 1) + i]

\* user_balances.get(&user_id).copied().unwrap_or(0)
BalanceOrZero(bal, u) == IF u \in DOMAIN bal THEN bal[u] ELSE 0

\* update_balances (lines 198-238) after the first n bets: each bet's user
\* gets (current + delta).max(0), total_user_delta gets the delta itself.
RECURSIVE UpdateUsers(_, _, _)
UpdateUsers(bal, bs, n) ==
    IF n = 0 THEN [user_balances |-> bal, total_user_delta |-> 0]
    ELSE LET before == UpdateUsers(bal, bs, n - 1)
             u == bs[n].user_id
             balance_delta == IntDelta(bs[n])
             new_balance == Max(BalanceOrZero(before.user_balances, u) + balance_delta, 0)
         IN  [user_balances |->
                 [k \in (DOMAIN before.user_balances) \cup {u} |->
                     IF k = u THEN new_balance ELSE before.user_balances[k]],
              total_user_delta |-> before.total_user_delta + balance_delta]

UpdateBalances(p, bs) ==
    LET users == UpdateUsers(p.user_balances, bs, Len(bs))
        house_delta == -users.total_user_delta
    IN  [p EXCEPT !.user_balances = users.user_balances,
                  !.house_balance = Max(p.house_balance + house_delta, 0)]

\* convert_to_settlement_batch (lines 85-125): the counter is incremented
\* first, the balances are a snapshot of the tracked ones.
ConvertToSettlementBatch(p, bs) ==
    [batch_id |-> p.batch_counter + 1,
     too_large |-> Len(bs) > ProverConfig.max_bets_per_batch,
     batch |-> [bets |-> bs, initial_balances |-> p.user_balances,
                house_initial_balance |-> p.house_balance]]

\* generate_proof (lines 164-195): what it returns, the batch_id bound in
\* the proof (public_inputs[0] and SerializableProof.batch_id,
\* proof_generator.rs:182-198), and the prover afterwards.
GenerateProof(p, bs) ==
    LET conv == ConvertToSettlementBatch(p, bs)
        counted == [p EXCEPT !.batch_counter = conv.batch_id]
        result == IF conv.too_large THEN "BatchTooLarge"
                  ELSE GenerateWitnessResult(conv.batch, FALSE, FALSE)
    IN  IF result = "Ok"
        THEN [result |-> "Ok", proof_batch_id |-> conv.batch_id,
              prover |-> UpdateBalances(counted, bs)]
        ELSE [result |-> result, proof_batch_id |-> 0, prover |-> counted]

TrackedTotal(p) ==
    SetSum(p.user_balances, DOMAIN p.user_balances) + p.house_balance

NoProverCall == [persisted |-> 0, result |-> "none", proof_batch_id |-> 0]

InitProver ==
    /\ sprover \in {NewSettlementProver(seeds) : seeds \in SeedBalances}
    /\ plog = [calls |-> 0, restarts |-> 0, initial_total |-> TrackedTotal(sprover),
               last |-> NoProverCall]
    /\ retry = <<>>
    /\ SettleOff
    /\ DbIdle
    /\ BetIdle
    /\ VrfIdle
    /\ CodecIdle
    /\ ProverIdle

proverFrame == <<retry, channel, batch, pc, cur, ledger, cfg, io, hist, budget,
                 dbVars, betVars, proverVars, callerVars, vrfVars, codecVars>>

\* process_settlement_batch with a prover and a disk that takes the write:
\* save_batch returns the id create_batch handed out, then generate_proof
\* is called on the same items (main.rs:264-293).
ProcessSettlementBatch(bs) ==
    /\ plog.calls < MaxProverCalls
    /\ mem' = CreateBatchMem(mem, ItemIds(bs, plog.calls))
    /\ file' = SaveToFile(file, mem', "ok")
    /\ LET out == GenerateProof(sprover, bs) IN
          /\ sprover' = out.prover
          /\ plog' = [plog EXCEPT !.calls = @ + 1,
                         !.last = [persisted |-> mem'.last_batch_id,
                                   result |-> out.result,
                                   proof_batch_id |-> out.proof_batch_id]]
    /\ UNCHANGED proverFrame

\* The process is restarted: the persistence is loaded from its file, the
\* prover is built and seeded again (main.rs:1034-1056).
RestartProver ==
    /\ plog.restarts < MaxCrashes
    /\ plog.calls > 0
    /\ mem' = LoadData(file)
    /\ sprover' = NewSettlementProver(sprover.seeds)
    /\ plog' = [plog EXCEPT !.restarts = @ + 1, !.last = NoProverCall]
    /\ UNCHANGED file
    /\ UNCHANGED proverFrame

NextProver ==
    \/ \E bs \in ProverBets : ProcessSettlementBatch(bs)
    \/ RestartProver

SpecProver == InitProver /\ [][NextProver]_vars

(***************************************************************************)
(* The size of a coordinator batch against the sizes the settlement prover *)
(* of main takes.  The coordinator flushes its buffer when it holds 50     *)
(* items (main.rs:1098) and on every tick that finds it non-empty, so it   *)
(* hands over batches of 1 to 50 items; only the number of items matters   *)
(* to the two size checks.                                                 *)
(***************************************************************************)
CoordinatorThreshold == 50

InitBatchSize ==
    /\ plog \in {[items |-> n, convert |-> "none", validate |-> "none"] :
                    n \in 1..CoordinatorThreshold}
    /\ sprover = <<>>
    /\ retry = <<>>
    /\ SettleOff
    /\ DbIdle
    /\ BetIdle
    /\ VrfIdle
    /\ CodecIdle
    /\ ProverIdle

sizeFrame == <<retry, sprover, settleVars, dbVars, betVars, proverVars, callerVars,
               vrfVars, codecVars>>

\* convert_to_settlement_batch makes one bet per item and then compares
\* bets.len() with config.max_bets_per_batch (settlement_prover.rs:118-125).
ConvertSize ==
    /\ plog.convert = "none"
    /\ plog' = [plog EXCEPT !.convert =
                   IF plog.items > DefaultMaxBetsPerBatch THEN "BatchTooLarge" ELSE "Ok"]
    /\ UNCHANGED sizeFrame

\* validate_batch of the generator SettlementProver::new has built compares
\* bets.len() with its max_batch_size (witness_generator.rs:208-213).
ValidateSize ==
    /\ plog.convert = "Ok"
    /\ plog.validate = "none"
    /\ plog' = [plog EXCEPT !.validate =
                   IF plog.items > SettlementProverNew.max_batch_size
                   THEN "BatchTooLarge" ELSE "Ok"]
    /\ UNCHANGED sizeFrame

NextBatchSize == ConvertSize \/ ValidateSize

SpecBatchSize == InitBatchSize /\ [][NextBatchSize]_vars

(***************************************************************************)
(* C1.  Each bet id appears in at most one item over all persisted         *)
(* batches, also when two items with the same bet id arrive before the     *)
(* buffer is flushed.                                                      *)
(***************************************************************************)
C1_BetIdInAtMostOneItem ==
    file.kind = "data" => \A x \in BetIds : StoredCount(file.d, x) <= 1

(***************************************************************************)
(* C2.  The persisted status of a batch changes only along the edges of    *)
(* the state machine, and a batch that is persisted as Submitted or        *)
(* Confirmed has its proof bytes stored.                                   *)
(***************************************************************************)
C2_StatusFollowsStateMachine ==
    [][\A b \in BatchIds :
          LET s == PersistedStatus(file, b)
              t == PersistedStatus(file', b)
          IN  /\ (s # "none" /\ t # "none" /\ s # t) => <<s, t>> \in StatusEdges
              /\ (t \in {"Submitted", "Confirmed"}) => PersistedProof(file', b)]_vars

(***************************************************************************)
(* C3.  When the submission of a batch has failed after all retries, the   *)
(* batch is persisted as Proved when the coordinator is done with it (its  *)
(* last write having succeeded), and get_pending_batches still returns it. *)
(***************************************************************************)
C3_FailedSubmissionStaysProved ==
    [][(DoneWithBatch /\ cur.submit = "failed" /\ io' = "ok") =>
          /\ PersistedStatus(file', cur.id) = "Proved"
          /\ cur.id \in GetPendingBatches(mem')]_vars

(***************************************************************************)
(* C4.  When the proof of a batch could not be produced, the batch is not  *)
(* submitted, gets no transaction id, does not become Submitted or         *)
(* Confirmed, and is persisted as Failed when the coordinator is done      *)
(* (its last write having succeeded).                                      *)
(***************************************************************************)
C4_FailedProofMarksFailed ==
    [][(cur.proof = "failed" /\ cur.id \in DOMAIN mem'.batches) =>
          /\ ledger' = ledger
          /\ mem'.batches[cur.id].transaction_signature = "none"
          /\ mem'.batches[cur.id].status \notin {"Submitted", "Confirmed"}
          /\ (DoneWithBatch /\ io' = "ok") =>
                 PersistedStatus(file', cur.id) = "Failed"]_vars

(***************************************************************************)
(* C5.  Every batch that get_pending_batches returns at a restart is       *)
(* resumed and eventually reaches Confirmed or Failed.  (A batch whose     *)
(* record is lost with the file in a later crash is not counted.)          *)
(***************************************************************************)
C5_RecoveredBatchesFinish ==
    \A b \in BatchIds :
        (pc = "select" /\ b \in hist.recovered)
            ~> (\/ b \notin DOMAIN mem.batches
                \/ mem.batches[b].status \in {"Confirmed", "Failed"})

C7_FailedWriteHasNoEffect ==
    [][io' = "err" => mem' = mem]_vars

(***************************************************************************)
(* C8.  Every id create_batch returns is strictly greater than every id    *)
(* it returned before, also across a restart.                              *)
(***************************************************************************)
C8_BatchIdsStrictlyIncrease ==
    [][(pc = "save_batch" /\ io' = "ok") =>
          mem'.last_batch_id > hist.returned]_vars

(***************************************************************************)
(* C9.  Every stored player row satisfies                                  *)
(* balance = total_deposited - total_withdrawn - total_wagered + total_won *)
(* and balance >= 0, after any sequence of deposit, withdraw and           *)
(* update_player_balance_after_bet calls with positive amounts.            *)
(***************************************************************************)
C9_RowAccountingHolds ==
    \A a \in Addrs :
        balances[a].exists =>
            /\ balances[a].balance =
                  balances[a].total_deposited - balances[a].total_withdrawn
                      - balances[a].total_wagered + balances[a].total_won
            /\ balances[a].balance >= 0

(***************************************************************************)
(* C10.  Concurrent calls on one address are equivalent to a sequential    *)
(* order of the same calls; in particular no deposit is lost: when no call *)
(* is under way, the balance of an address is the sum of the deposits that *)
(* returned Ok less the debits that returned Ok.  (No debit returns Ok in  *)
(* this model, and the sum is taken only while it fits the field.)         *)
(***************************************************************************)
C10_NoDepositIsLost ==
    \A a \in Addrs :
        (Quiescent /\ dbhist.credited[a] <= I64Max) =>
            balances[a].balance = dbhist.credited[a]


(***************************************************************************)
(* C20.  save_bet is idempotent on bet.id: after the same bet was saved    *)
(* twice its id is once in the player's list and get_player_bets returns   *)
(* the bet once.                                                           *)
(***************************************************************************)
C20_SaveBetIsIdempotent ==
    \A a \in Addrs : \A id \in BetIds :
        /\ Cardinality({i \in DOMAIN player_bets[a] : player_bets[a][i] = id}) <= 1
        /\ LET got == GetPlayerBets(bets, player_bets, a, MaxCalls)
           IN  Cardinality({i \in DOMAIN got : got[i].id = id}) <= 1


(***************************************************************************)
(* C11.  A bet of at least the minimum amount by a player without a        *)
(* balance row, or with a balance below the amount, is never answered 200  *)
(* (it is answered 400, or 500 when the coin flip itself fails first), no  *)
(* bet record is saved for it and no settlement item is queued.            *)
(***************************************************************************)
C11_UnderfundedBetIsRejected ==
    \A r \in Reqs :
        (reqs[r].pc # "idle" /\ reqs[r].amount >= MinBetAmount /\ Underfunded(r)) =>
            /\ reqs[r].status \in {0, 400, 500}
            /\ r \notin DOMAIN bets
            /\ ~IsQueued(r)

(***************************************************************************)
(* C12.  Every saved bet record has won = (guess = result) and             *)
(* payout = 2 * amount when guess = result, else 0; and so has every       *)
(* BetSettlement built from a queued settlement item (won being            *)
(* user_guess = outcome there).                                            *)
(***************************************************************************)
C12_PayoutMatchesOutcome ==
    /\ \A id \in DOMAIN bets :
          /\ bets[id].won = (bets[id].guess = bets[id].result)
          /\ bets[id].payout =
                IF bets[id].guess = bets[id].result THEN 2 * bets[id].amount ELSE 0
    /\ \A i \in DOMAIN queued :
          \A bs \in {BetSettlementWithProof(queued[i]), BetSettlementLegacy(queued[i])} :
              bs.payout = IF bs.user_guess = bs.outcome THEN 2 * bs.bet_amount ELSE 0

(***************************************************************************)
(* C18.  The client has received the BetResponse of a bet before the bet   *)
(* record or the settlement item of that bet exists, and before its        *)
(* balance update has begun.                                               *)
(***************************************************************************)
C18_ResponseBeforeDurableState ==
    \A r \in Reqs :
        (r \in DOMAIN bets \/ IsQueued(r)
           \/ reqs[r].bg \in {"send", "blocked", "panicked", "done"}) =>
            reqs[r].status = 200

(***************************************************************************)
(* C19.  Each request that passes amount validation claims exactly one     *)
(* value of the bet-nonce counter, no two requests get the same nonce, and *)
(* the counter starts at 0 and counts the claims: the nonces handed out    *)
(* are 0 .. bet_counter - 1.                                               *)
(***************************************************************************)
C19_NoncesAreUnique ==
    /\ \A q, r \in Claimed : q # r => reqs[q].nonce # reqs[r].nonce
    /\ bet_counter = Cardinality(Claimed)
    /\ {reqs[r].nonce : r \in Claimed} = 0..(bet_counter - 1)

\* Two requests have claimed their nonces, the second while the first was
\* still being handled.
C19_Witness ==
    /\ Cardinality(Claimed) = MaxBets
    /\ \E q, r \in Claimed : q # r /\ reqs[q].pc = "flip" /\ reqs[r].pc = "flip"


(***************************************************************************)
(* C13.  For every batch generate_witness accepts, each user's final       *)
(* balance minus the initial balance is the sum of that user's bet deltas  *)
(* (+amount on a win, -amount on a loss), and the sum of all user deltas   *)
(* plus house_final - house_initial is 0.                                  *)
(***************************************************************************)
C13_BalancesConserveFunds ==
    wres = "Ok" =>
        /\ \A u \in DOMAIN wbatch.initial_balances :
              circuit.final_balances[u] - circuit.initial_balances[u]
                 = IntUserDelta(wbatch, u)
        /\ IntUserSum(wbatch) + (circuit.house_final - circuit.house_initial) = 0

(***************************************************************************)
(* C14.  A batch that would drive a user's balance below 0 (initial plus   *)
(* that user's deltas, over the integers: total losses above the initial   *)
(* balance) is never accepted: it ends in an error, so no user balance of  *)
(* a circuit is a wrapped negative number.  (The claim says the same of    *)
(* the house balance.)                                                     *)
(***************************************************************************)
C14_NoNegativeBalanceAccepted ==
    LET negative ==
          \E u \in DOMAIN wbatch.initial_balances :
              wbatch.initial_balances[u] + IntUserDelta(wbatch, u) < 0
    IN  negative => wres # "Ok"


\* The conditions of a batch that the error cases are about.
UnknownUserAt(i) == wbatch.bets[i].user_id \notin DOMAIN wbatch.initial_balances
InsufficientAt(i) ==
    /\ ~UnknownUserAt(i)
    /\ wbatch.bets[i].amount > wbatch.initial_balances[wbatch.bets[i].user_id]
UserIdTooLarge == \E u \in DOMAIN wbatch.initial_balances : u >= max_users

C16_ConstraintsEnforceConservation ==
    sat = "satisfied" => Conserves(circuit)


(***************************************************************************)
(* C17.  For any interleaving of mutator calls, when a mutator returns Ok  *)
(* the file on disk holds a snapshot that contains that call's mutation,   *)
(* and whenever no save is under way the file holds a snapshot that is not *)
(* older than any call that has returned Ok.                               *)
(***************************************************************************)
C17_FileHoldsAckedMutations ==
    /\ phist.missed = {}
    /\ ReadGuards = {} => \A v \in phist.acked : FileHolds(v)


(***************************************************************************)
(* C21.  create_player_balance on an address that already has a balance    *)
(* row fails and leaves the row unchanged: no call of it changes an        *)
(* existing row.                                                           *)
(***************************************************************************)
C21_CreateKeepsExistingRow ==
    [][\A a \in Addrs, initial_balance \in Amounts :
          (balances[a].exists /\ CreatePlayerBalance(a, initial_balance)) =>
              balances'[a] = balances[a]]_vars

(***************************************************************************)
(* C22.  withdraw and update_player_balance_after_bet return               *)
(* PlayerNotFound or InsufficientBalance only with every row unchanged,    *)
(* and otherwise make their update: a call that found the row and enough   *)
(* balance returns Ok with its row stored.                                 *)
(***************************************************************************)
C22_DebitCallsMakeTheirUpdate ==
    \A t \in Tasks :
        (tasks[t].pc = "insert" /\ tasks[t].op \in {"withdraw", "bet"})
            ~> (tasks[t].pc = "idle" /\ tasks[t].result = "Ok")


(***************************************************************************)
(* C23.  load_or_generate resolves the key in this order: the file the     *)
(* environment variable names, if it is an existing readable key file;     *)
(* else (variable unset, or naming a missing or unreadable file) the       *)
(* default file, if it exists; else a newly generated key persisted to the *)
(* default path.  Every successful call returns a validated key, and a     *)
(* second call with the same inputs returns the same public key.           *)
(***************************************************************************)
\* The key a call has to return by that order, given the files it found;
\* 0 when the order comes to generating a key, and when the variable names
\* a file that can be read and holds no keypair (the order names no step
\* for it).
C23_KeyByOrder(before) ==
    IF env # "unset" /\ before[env].kind = "key" THEN before[env].secret
    ELSE IF env # "unset" /\ before[env].kind = "corrupt" THEN 0
    ELSE IF before["default_path"].kind = "key" THEN before["default_path"].secret
    ELSE 0

C23_KeyResolvedInOrder ==
    /\ \A i \in 1..Len(keylog) :
          /\ C23_KeyByOrder(keylog[i].before) # 0 =>
                /\ keylog[i].result.err = "Ok"
                /\ keylog[i].result.secret = C23_KeyByOrder(keylog[i].before)
          /\ keylog[i].result.err = "Ok" =>
                /\ Validate(keylog[i].result.secret) = "Ok"
                /\ keylog[i].generated =>
                      keylog[IF i < Len(keylog) THEN i + 1 ELSE i].before["default_path"]
                         = KeyFile(keylog[i].result.secret)
    /\ \A i, j \in 1..Len(keylog) :
          (keylog[i].result.err = "Ok" /\ keylog[j].result.err = "Ok")
              => keylog[i].result.public = keylog[j].result.public

(***************************************************************************)
(* C24.  For a fixed keypair, bet id, user and nonce, any two calls of     *)
(* create_vrf_proof (or of create_vrf_proof_from_string) return the same   *)
(* message, signature, public key and outcome; the proof returned passes   *)
(* verify() and its outcome is (signature[0] & 1 == 0); and verify() is    *)
(* false for the proof with a valid signature and the other outcome flag.  *)
(***************************************************************************)
C24_SameCall(e, f) ==
    /\ e.kind = f.kind
    /\ e.bet_id = f.bet_id
    /\ e.bet_str = f.bet_str
    /\ e.user = f.user
    /\ e.nonce = f.nonce

C25_UserIdBelowMaxUsers ==
    /\ \A i \in 1..Len(uidlog.calls) :
          0 <= uidlog.calls[i].user_id /\ uidlog.calls[i].user_id < uidlog.max_users
    /\ \A i, j \in 1..Len(uidlog.calls) :
          uidlog.calls[i].player_address = uidlog.calls[j].player_address
              => uidlog.calls[i].user_id = uidlog.calls[j].user_id

(***************************************************************************)
(* C26.  For every bet the endpoint accepts, the amount in the bet record  *)
(* and in the SettlementItem is the requested amount and is > 0, and the   *)
(* payout is 0 or 2 * amount: no conversion or multiplication overflows or *)
(* turns an amount negative.                                               *)
(***************************************************************************)
C26_AmountsSurviveConversion ==
    /\ \A id \in DOMAIN bets :
          /\ bets[id].amount = reqs[id].amount
          /\ bets[id].amount > 0
          /\ bets[id].payout \in {0, 2 * reqs[id].amount}
    /\ \A i \in DOMAIN queued :
          /\ queued[i].amount = reqs[queued[i].bet_id].amount
          /\ queued[i].amount > 0
          /\ queued[i].payout \in {0, 2 * reqs[queued[i].bet_id].amount}

(***************************************************************************)
(* C27.  The user_guess and outcome written into each on-ledger            *)
(* BetSettlement, and the guess and outcome of each SettlementBet handed   *)
(* to the prover, equal the guess and result of the bet record the         *)
(* settlement item was made from.                                          *)
(***************************************************************************)
C27_GuessAndOutcomeAreTheBets ==
    \A i \in DOMAIN queued :
        queued[i].bet_id \in DOMAIN bets =>
            LET bet == bets[queued[i].bet_id] IN
            /\ BetSettlementWithProof(queued[i]).user_guess = SideU8(bet.guess)
            /\ BetSettlementWithProof(queued[i]).outcome = SideU8(bet.result)
            /\ ConvertToSettlementBet(queued[i]).guess = bet.guess
            /\ ConvertToSettlementBet(queued[i]).outcome = bet.result

(***************************************************************************)
(* C28.  For every SerializableProof p, from_bytes(to_bytes(p)) succeeds   *)
(* and yields the same batch_id, timestamp, public inputs (same number and *)
(* order) and proof; from_bytes on a truncated frame returns an error and  *)
(* never a partial proof.                                                  *)
(***************************************************************************)
C28_RoundTripAndTruncation ==
    wire.decoded.err # "none" =>
        /\ wire.cut = Len(wire.frame) =>
              /\ wire.decoded.err = "Ok"
              /\ wire.decoded.value.batch_id = wire.p.batch_id
              /\ wire.decoded.value.timestamp = wire.p.timestamp
              /\ wire.decoded.value.public_inputs = wire.p.public_inputs
              /\ wire.decoded.value.proof = wire.p.proof
        /\ wire.cut < Len(wire.frame) =>
              /\ wire.decoded.err \in {"Io", "Serialization"}
              /\ wire.decoded.value = NoProof

\* A proof with two different public inputs has made the round trip.
C28_Witness ==
    /\ wire.decoded.err = "Ok"
    /\ wire.cut = Len(wire.frame)
    /\ Len(wire.p.public_inputs) = 2
    /\ wire.p.public_inputs[1] # wire.p.public_inputs[2]
    /\ wire.p.batch_id = 999

(***************************************************************************)
(* C29.  Under fair scheduling and with persistence writes succeeding,     *)
(* every settlement item sent on the channel is eventually contained in a  *)
(* persisted batch (its own, or for a bet id processed before, the earlier *)
(* one): no item stays in the channel or in the buffer forever, and none   *)
(* is discarded.                                                           *)
(***************************************************************************)
C29_InPersistedBatch(b) == file.kind = "data" /\ StoredCount(file.d, b) >= 1

C29_SentItemsArePersisted ==
    \A b \in BetIds :
        (b \in Range(channel) \/ b \in Range(batch)) ~> C29_InPersistedBatch(b)

\* Everything sent has been received, and the file holds a batch flushed
\* at the threshold and a batch the timer flushed.
C29_Witness ==
    /\ budget.sends = MaxSends
    /\ channel = <<>>
    /\ batch = <<>>
    /\ file.kind = "data"
    /\ \E x, y \in DOMAIN file.d.batches :
          /\ Len(file.d.batches[x].items) = FlushThreshold
          /\ Len(file.d.batches[y].items) < FlushThreshold

(***************************************************************************)
(* C30.  After the coordinator has handled any event its buffer holds      *)
(* fewer items than the threshold; every persisted batch has between 1 and *)
(* threshold items; a timer tick with an empty buffer creates no batch;    *)
(* and the buffer is empty after every flush (and takes no item during     *)
(* one), so no item is flushed into two batches.                           *)
(***************************************************************************)
C30_BatchSizes(d) ==
    \A id \in DOMAIN d.batches :
        1 <= Len(d.batches[id].items) /\ Len(d.batches[id].items) <= FlushThreshold

C30_Flushing == pc \in {"save_batch", "prove", "submit", "store_tx", "mark_completed"}

C30_BufferIsFlushedWhole ==
    /\ [](pc = "select" => Len(batch) < FlushThreshold)
    /\ [](C30_BatchSizes(mem) /\ (file.kind = "data" => C30_BatchSizes(file.d)))
    /\ [][(pc = "select" /\ batch = <<>>) =>
             (file' = file /\ (pc' # "recover" => mem' = mem))]_vars
    /\ [][(C30_Flushing /\ pc' = "select") => batch' = <<>>]_vars
    /\ [][(C30_Flushing /\ C30_Flushing') => batch' = batch]_vars

\* A flush at the threshold is over and the next item has been received.
C30_Witness ==
    /\ pc = "select"
    /\ Len(batch) = 1
    /\ io = "none"
    /\ \E id \in DOMAIN mem.batches : Len(mem.batches[id].items) = FlushThreshold

(***************************************************************************)
(* C36.  No ledger-store mutator waits for the write lock of a map shard   *)
(* while it still holds a read guard on that shard: no call of deposit,    *)
(* withdraw or update_player_balance_after_bet is at its insert with the   *)
(* guard of its own get alive.                                             *)
(***************************************************************************)
C36_NoInsertUnderOwnGuard ==
    \A t \in Tasks : tasks[t].pc = "insert" => ~tasks[t].guard

(***************************************************************************)
(* C40.  load_or_generate never overwrites an existing file at             *)
(* default_path: a file that exists there keeps its content (and a call    *)
(* that finds it unreadable as a keypair fails); a new key is written only *)
(* when no file exists there.                                              *)
(***************************************************************************)
C40_ExistingDefaultFileIsKept ==
    [][keyfiles["default_path"].kind # "missing" =>
          /\ keyfiles'["default_path"] = keyfiles["default_path"]
          /\ (env = "unset" /\ keyfiles["default_path"].kind = "corrupt") =>
                keylog'[Len(keylog')].result.err # "Ok"]_vars

(***************************************************************************)
(* C32.  send_transaction_with_retry makes at most retry_attempts send     *)
(* attempts, stops at the first success and returns its signature, sleeps  *)
(* between two consecutive attempts and never after the last, returns the  *)
(* last error after retry_attempts failures, and never panics, whatever    *)
(* retry_attempts is configured, 0 included.                               *)
(***************************************************************************)
SendsMade == Len(SelectSeq(retry.events, LAMBDA e : e = "send"))
SleepsMade == Len(SelectSeq(retry.events, LAMBDA e : e = "sleep"))

C32_RetryReturnsAResult ==
    retry # <<>> =>
        /\ retry.pc # "panicked"
        /\ SendsMade <= retry.config.retry_attempts
        /\ \A i \in 1..Len(retry.outcomes) : retry.outcomes[i].ok => i = Len(retry.outcomes)
        /\ \A i \in 1..(Len(retry.events) - 1) : retry.events[i] # retry.events[i + 1]
        /\ retry.pc = "returned" =>
              /\ retry.events[Len(retry.events)] = "send"
              /\ SleepsMade = SendsMade - 1
              /\ retry.result = retry.outcomes[Len(retry.outcomes)]
              /\ ~retry.result.ok => SendsMade = retry.config.retry_attempts

(***************************************************************************)
(* C35.  get_player_bets(address, limit) returns the min(limit, n) bets of *)
(* the player that have the greatest timestamps, newest first, whatever    *)
(* the order in which the bets were saved.  Checked for stores in which    *)
(* every bet id was saved once.                                            *)
(***************************************************************************)
EachBetSavedOnce ==
    /\ \A a \in Addrs : \A i, j \in DOMAIN player_bets[a] :
          player_bets[a][i] = player_bets[a][j] => i = j
    /\ \A a, b \in Addrs : a # b => Range(player_bets[a]) \cap Range(player_bets[b]) = {}

C35_PlayerBetsAreTheNewest ==
    EachBetSavedOnce =>
        \A a \in Addrs, limit \in 1..MaxCalls :
            LET got == GetPlayerBets(bets, player_bets, a, limit)
                left == {bets[id] : id \in Range(player_bets[a])} \ Range(got)
            IN  /\ Len(got) = IF limit <= Len(player_bets[a]) THEN limit ELSE Len(player_bets[a])
                /\ \A i \in 1..(Len(got) - 1) : got[i].timestamp >= got[i + 1].timestamp
                /\ \A old \in left : \A i \in DOMAIN got : got[i].timestamp >= old.timestamp

(***************************************************************************)
(* C33.  Every bet id of every stored batch is in processed_bet_ids, and   *)
(* processed_bet_ids only grows: an id for which is_bet_processed has      *)
(* returned true is reported processed in every later state of the store.  *)
(***************************************************************************)
C33_ProcessedBetsOnlyGrow ==
    [][/\ \A b \in DOMAIN mem'.batches :
             Range(mem'.batches[b].items) \subseteq mem'.processed_bet_ids
       /\ \A id \in BetIds : IsBetProcessed(mem, id) => IsBetProcessed(mem', id)]_vars

(***************************************************************************)
(* C34.  Every circuit generate_witness emits has exactly max_batch_size   *)
(* bets: the real bets in batch order, then dummy bets (user 0, amount 0,  *)
(* guess true, outcome false).  Its balance arrays have length max_users,  *)
(* index u holding user u's initial and final balance, both 0 for a user   *)
(* without an entry in the initial-balance map.  The dummy bets change no  *)
(* balance.                                                                *)
(***************************************************************************)
C34_CircuitIsPadded ==
    circuit # <<>> =>
        LET n == Len(wbatch.bets)
            keys == DOMAIN wbatch.initial_balances
        IN  /\ Len(circuit.bets) = max_batch_size
            /\ \A i \in 1..n : circuit.bets[i] = wbatch.bets[i]
            /\ \A i \in (n + 1)..Len(circuit.bets) :
                  circuit.bets[i] = [user_id |-> 0, amount |-> 0,
                                     guess |-> TRUE, outcome |-> FALSE]
            /\ DOMAIN circuit.initial_balances = 0..(max_users - 1)
            /\ DOMAIN circuit.final_balances = 0..(max_users - 1)
            /\ \A u \in 0..(max_users - 1) :
                  IF u \in keys
                  THEN /\ circuit.initial_balances[u] = wbatch.initial_balances[u]
                       /\ circuit.final_balances[u] =
                             FinalBalance(wbatch.initial_balances[u], DeltaOf(wbatch, u))
                  ELSE /\ circuit.initial_balances[u] = 0
                       /\ circuit.final_balances[u] = 0
            /\ \A u \in 0..(max_users - 1) :
                  WrappedDelta(circuit.bets, u, Len(circuit.bets)) =
                      WrappedDelta(wbatch.bets, u, n)

\* A circuit was emitted for a batch that needed a dummy bet, whose real bet
\* moved a balance, and in which some user has no initial balance.
C34_PaddedCircuitEmitted ==
    /\ circuit # <<>>
    /\ Len(wbatch.bets) < max_batch_size
    /\ \E i \in DOMAIN wbatch.bets : wbatch.bets[i].amount > 0
    /\ \E u \in 0..(max_users - 1) : u \notin DOMAIN wbatch.initial_balances
    /\ \E u \in 0..(max_users - 1) :
          /\ u \in DOMAIN wbatch.initial_balances
          /\ circuit.final_balances[u] # circuit.initial_balances[u]

(***************************************************************************)
(* C31.  Items are persisted in receive order: when the coordinator has    *)
(* received the non-duplicate item x before the item y, the pair           *)
(* (batch_id, index in the batch) of x is lexicographically smaller than   *)
(* that of y.  An item is identified by its bet id, so the property is     *)
(* stated for the bet ids the coordinator has taken into its buffer once;   *)
(* for all items, the store read by (batch_id, index) is a subsequence of  *)
(* the sequence of items the coordinator has taken into its buffer.        *)
(***************************************************************************)
\* The items of the batches 1..b of the store, by batch_id and index.
RECURSIVE FlattenItems(_, _)
FlattenItems(d, b) ==
    IF b = 0 THEN <<>>
    ELSE FlattenItems(d, b - 1) \o
         (IF b \in DOMAIN d.batches THEN d.batches[b].items ELSE <<>>)

RECURSIVE IsSubsequence(_, _)
IsSubsequence(s, t) ==
    IF s = <<>> THEN TRUE
    ELSE IF t = <<>> THEN FALSE
    ELSE IF Head(s) = Head(t) THEN IsSubsequence(Tail(s), Tail(t))
    ELSE IsSubsequence(s, Tail(t))

ReceivedOnce(id) ==
    Cardinality({i \in DOMAIN hist.received : hist.received[i] = id}) = 1

\* The places (batch_id, index) at which the store holds the bet id.
PlacesOf(d, id) ==
    {p \in (DOMAIN d.batches) \X (1..MaxSends) :
        /\ p[2] \in DOMAIN d.batches[p[1]].items
        /\ d.batches[p[1]].items[p[2]] = id}

LexLess(p, q) == p[1] < q[1] \/ (p[1] = q[1] /\ p[2] < q[2])

C31_PersistedInReceiveOrder ==
    /\ IsSubsequence(FlattenItems(mem, mem.last_batch_id), hist.received)
    /\ \A i, j \in DOMAIN hist.received :
          (/\ i < j
           /\ ReceivedOnce(hist.received[i])
           /\ ReceivedOnce(hist.received[j])) =>
              \A p \in PlacesOf(mem, hist.received[i]), q \in PlacesOf(mem, hist.received[j]) :
                  LexLess(p, q)

\* Two items received once each are both in the store.
C31_TwoItemsPersisted ==
    \E i, j \in DOMAIN hist.received :
        /\ i < j
        /\ ReceivedOnce(hist.received[i])
        /\ ReceivedOnce(hist.received[j])
        /\ PlacesOf(mem, hist.received[i]) # {}
        /\ PlacesOf(mem, hist.received[j]) # {}

C39_TrackedFundsAreConserved ==
    sprover # <<>> => TrackedTotal(sprover) = plog.initial_total

(***************************************************************************)
(* C37.  No batch the coordinator forms (1 to 50 items) is rejected for    *)
(* its size by the settlement prover built from                            *)
(* SettlementProverConfig::default(): neither by max_bets_per_batch nor by *)
(* the max_batch_size the ProofGenerator is constructed with.              *)
(***************************************************************************)
C37_NoBatchRejectedForSize ==
    /\ plog.convert # "BatchTooLarge"
    /\ plog.validate # "BatchTooLarge"

=============================================================================
